---- MODULE Spec2Model ----
(***************************************************************************)
(* Model of the va-chat backend (src/backend/main.py): the URL resolver,   *)
(* the citation extraction, the result formatter, the dual-agent           *)
(* orchestrator chat_with_agent and the /api/chat endpoint.                *)
(*                                                                         *)
(* Strings.  A Python string is modelled as a sequence of tokens.  A token *)
(* is a record [s |-> word, n |-> count]:                                  *)
(*   - s = "x": a run of n ordinary characters 'x' (filler text);          *)
(*   - any other word: the first n characters of the word (n = Len(s) for  *)
(*     the whole word, n < Len(s) for a word cut by a slice or a regex).   *)
(* The vocabulary is chosen so that every substring the code searches for  *)
(* (the words of an indicator phrase, a bracket, a line break, a URL       *)
(* scheme, a file extension) occurs in a text exactly as whole tokens.     *)
(* Every whitespace character is a token of its own; a word with a blank   *)
(* inside is used only for literals the code never searches.               *)
(***************************************************************************)
EXTENDS Integers, Sequences, FiniteSets, TLC

\* ------------------------------------------------------------------ bounds
\* longest agent response text, in tokens
MaxTextLen == 2
\* most annotations on one assistant message, most citations in one call
MaxAnnotations == 3
\* longest response text handed to the text parser, in tokens
MaxParseLen == 4
\* most rows of a mapping.csv the resolver is tried on
MaxRows == 2

\* ----------------------------------------------------------------- strings
None == "None"

Lit(w) == [s |-> w, n |-> Len(w)]
Run(k) == [s |-> "x", n |-> k]
S(w) == << Lit(w) >>
EmptyStr == << >>

\* the value None where the code expects a string (an attribute that is null)
NoneStr == << [s |-> "None", n |-> 0] >>

\* "not value" for a string attribute: empty or None
Falsy(str) == str = << >> \/ str = NoneStr

IsWhole(tok) == tok.s = "x" \/ tok.n = Len(tok.s)

\* whole token equal to the word w
Is(tok, w) == tok.s = w /\ tok.n = Len(w)

RECURSIVE StrLen(_)
StrLen(str) == IF str = << >> THEN 0 ELSE Head(str).n + StrLen(Tail(str))

\* str.lower() of one word of the vocabulary
LowerWord(w) ==
    CASE w = "NO_RESULTS_FOUND" -> "no_results_found"
      [] w = "Not" -> "not"
      [] w = "Found" -> "found"
      [] w = "No" -> "no"
      [] w = "Results" -> "results"
      [] OTHER -> w

\* whitespace characters (\s)
SpaceWords == {" ", "\n"}
IsSpace(tok) == tok.s \in SpaceWords

\* str.strip()
RECURSIVE LStrip(_)
LStrip(str) ==
    IF str # << >> /\ IsSpace(Head(str)) THEN LStrip(Tail(str)) ELSE str

RECURSIVE RStrip(_)
RStrip(str) ==
    IF str # << >> /\ IsSpace(str[Len(str)])
    THEN RStrip(SubSeq(str, 1, Len(str) - 1))
    ELSE str

Strip(str) == RStrip(LStrip(str))

\* str[:k]
RECURSIVE Take(_, _)
Take(str, k) ==
    IF str = << >> \/ k <= 0 THEN << >>
    ELSE IF Head(str).n <= k
         THEN << Head(str) >> \o Take(Tail(str), k - Head(str).n)
         ELSE << [s |-> Head(str).s, n |-> k] >>

\* needle in str, for a needle that is one word of the vocabulary
Contains(str, w) == \E i \in 1..Len(str) : Is(str[i], w)

\* str.lower()
Lower(str) ==
    [i \in 1..Len(str) |->
        IF IsWhole(str[i]) /\ str[i].s # "x" THEN Lit(LowerWord(str[i].s)) ELSE str[i]]

\* needle in str, for a needle made of whole words
ContainsStr(str, needle) ==
    \E off \in 0..(Len(str) - Len(needle)) :
        \A k \in 1..Len(needle) : str[off + k] = needle[k]

\* str.startswith(w)
StartsWithWord(str, w) == str # << >> /\ Is(str[1], w)

\* str.endswith(w)
EndsWithWord(str, w) == str # << >> /\ Is(str[Len(str)], w)

\* all sequences over alphabet of length at most k
BoundedSeq(alphabet, k) == UNION {[1..m -> alphabet] : m \in 0..k}


\* ------------------------------------------------------------------- state
VARIABLES
    url_mapping,            \* process-wide table: document id -> url
    fallback_agent_id,      \* None when no fallback agent is configured
    request,                \* the ChatRequest: [message, thread_id, mode]
    pc,                     \* position of the request in chat / chat_with_agent
    threads,                \* agent service: thread id -> messages, oldest first
    thread_id,              \* chat_with_agent's thread_id
    service_calls,          \* the calls made on the agents client, in order
    run,                    \* the primary run: [status]
    fallback_run,           \* the fallback run: [status]
    primary_response_text,
    primary_citations,
    use_fallback,
    fallback_response_text,
    fallback_citations,
    result,                 \* what chat_with_agent returned or raised
    response,               \* what the endpoint gave the caller
    call,                   \* arguments of a direct call of the formatter
    results,                \* the list that call returned
    inflight                \* requests handled concurrently: id -> its locals

config_vars == << url_mapping, fallback_agent_id, request >>
service_vars == << threads, thread_id, service_calls, run, fallback_run >>
primary_vars == << primary_response_text, primary_citations, use_fallback >>
fallback_vars == << fallback_response_text, fallback_citations >>
call_vars == << call, results >>
vars == << config_vars, service_vars, primary_vars, fallback_vars,
           pc, result, response, call_vars, inflight >>

\* ------------------------------------------------------------ URL resolver
\* file extensions; in file names and urls a dot occurs only as the first
\* character of one of these words
ExtWords == {".pdf", ".docx"}

\* os.path.splitext(name)[0]
SplitextBase(name) ==
    IF Len(name) > 1 /\ name[Len(name)].s \in ExtWords /\ IsWhole(name[Len(name)])
    THEN SubSeq(name, 1, Len(name) - 1)
    ELSE name

\* words that begin with "http"; each ends with its last '/'
HttpWords == {"https://x/", "https://bing/", "http://old/"}

\* str.startswith('http')
StartsWithHttp(str) == str # << >> /\ str[1].s \in HttpWords /\ str[1].n >= 4

\* mapping.csv as read by csv.reader: rows of cells
MappingRows ==
    << << S("doc_") \o S("1") \o S(".pdf"),
          S("https://x/") \o S("y") \o S("?") \o S("file=") \o S("Annual-Report") \o S(".pdf") >>,
       << S("doc_") \o S("2") \o S(".docx"),
          S("https://x/") \o S("va_forms") \o S(".docx") >>,
       << S("doc_") \o S("3") >>,
       << S("doc_") \o S("4") \o S(".pdf"),
          S("https://x/") \o S("page") >> >>

\* d[k] = v on a dict
DictSet(d, k, v) == [x \in DOMAIN d \cup {k} |-> IF x = k THEN v ELSE d[x]]

\* the loop over the rows of mapping.csv
RECURSIVE LoadRows(_, _)
LoadRows(rows, d) ==
    IF rows = << >> THEN d
    ELSE LET row == Head(rows) IN
         IF Len(row) >= 2
         THEN LoadRows(Tail(rows),
                       DictSet(DictSet(d, row[1], row[2]),
                               SplitextBase(row[1]), row[2]))
         ELSE LoadRows(Tail(rows), d)

EmptyDict == [x \in {} |-> << >>]

LoadUrlMapping == LoadRows(MappingRows, EmptyDict)

\* a resolver that tries the '.docx' key before the '.pdf' key
map_docx_before_pdf(doc_id) ==
    IF StartsWithHttp(doc_id) THEN doc_id
    ELSE IF doc_id \in DOMAIN url_mapping THEN url_mapping[doc_id]
    ELSE IF doc_id \o S(".docx") \in DOMAIN url_mapping
         THEN url_mapping[doc_id \o S(".docx")]
    ELSE IF doc_id \o S(".pdf") \in DOMAIN url_mapping
         THEN url_mapping[doc_id \o S(".pdf")]
    ELSE doc_id

\* a resolver that gives the '#' marker for an identifier it cannot resolve
map_unresolved_to_marker(doc_id) ==
    IF StartsWithHttp(doc_id) THEN doc_id
    ELSE IF doc_id \in DOMAIN url_mapping THEN url_mapping[doc_id]
    ELSE IF doc_id \o S(".pdf") \in DOMAIN url_mapping
         THEN url_mapping[doc_id \o S(".pdf")]
    ELSE IF doc_id \o S(".docx") \in DOMAIN url_mapping
         THEN url_mapping[doc_id \o S(".docx")]
    ELSE S("#")

map_document_id_to_url(doc_id) ==
    IF StartsWithHttp(doc_id) THEN doc_id
    ELSE IF doc_id \in DOMAIN url_mapping THEN url_mapping[doc_id]
    ELSE IF doc_id \o S(".pdf") \in DOMAIN url_mapping
         THEN url_mapping[doc_id \o S(".pdf")]
    ELSE IF doc_id \o S(".docx") \in DOMAIN url_mapping
         THEN url_mapping[doc_id \o S(".docx")]
    ELSE doc_id

\* a resolver that stores what it resolved in the table
TableAfterCachingLookup(table, doc_id) ==
    [x \in DOMAIN table \cup {doc_id} |-> IF x = doc_id THEN doc_id ELSE table[x]]

\* the table after map_document_id_to_url(doc_id): the function only tests
\* membership ("in url_mapping") and reads ("url_mapping[...]")
TableAfterLookup(table, doc_id) == table

\* the table after the calls map_document_id_to_url(id) for the ids in turn
RECURSIVE TableAfterLookups(_, _)
TableAfterLookups(table, doc_ids) ==
    IF doc_ids = << >> THEN table
    ELSE TableAfterLookups(TableAfterLookup(table, Head(doc_ids)), Tail(doc_ids))

\* ------------------------------------------------- optional values (None)
\* an Optional[...] value: None, or a value v
NoneOpt == [none |-> TRUE, v |-> << >>]
Some(val) == [none |-> FALSE, v |-> val]

\* "x if x else None" for a list or a string
OrNone(val) == IF val # << >> THEN Some(val) ELSE NoneOpt

\* truthiness of an optional list or string
Truthy(opt) == ~opt.none /\ opt.v # << >>

\* ------------------------------------------------------- titles from urls
Sentinel == S("#")

\* words that end with '/'
SlashWords == HttpWords \cup {"/"}

IsSlash(tok) == tok.s \in SlashWords /\ IsWhole(tok)

\* os.path.basename(path), also path.split('/')[-1]
RECURSIVE Basename(_)
Basename(path) ==
    IF \E i \in 1..Len(path) : IsSlash(path[i])
    THEN Basename(Tail(path))
    ELSE path

\* index of the first whole token w in str, 0 if there is none
IndexOf(str, w) ==
    IF Contains(str, w)
    THEN CHOOSE i \in 1..Len(str) :
            Is(str[i], w) /\ \A j \in 1..(i - 1) : ~Is(str[j], w)
    ELSE 0

\* str up to, not including, the first token w
Before(str, w) ==
    IF Contains(str, w) THEN SubSeq(str, 1, IndexOf(str, w) - 1) ELSE str

\* str after the first token w
After(str, w) ==
    IF Contains(str, w) THEN SubSeq(str, IndexOf(str, w) + 1, Len(str)) ELSE << >>

\* urllib.parse.urlparse(url).query
UrlQuery(url) == After(Before(url, "#"), "?")

\* urllib.parse.parse_qs(query).get('file', [''])[0]: the value of the first
\* parameter named exactly 'file' that has a value
RECURSIVE FileParam(_)
FileParam(query) ==
    IF query = << >> THEN << >>
    ELSE LET param == Before(query, "&")
             rest == After(query, "&")
         IN IF StartsWithWord(param, "file=") /\ Len(param) > 1
            THEN Tail(param)
            ELSE FileParam(rest)

\* w.replace('-', ' ').replace('_', ' ').title() for one word
HumanizeWord(w) ==
    CASE w = "Annual-Report" -> "Annual Report"
      [] w = "va_forms" -> "Va Forms"
      [] w = "page" -> "Page"
      [] w = "y" -> "Y"
      [] w = "doc_" -> "Doc "
      [] w = ".pdf" -> ".Pdf"
      [] w = ".docx" -> ".Docx"
      [] OTHER -> w

Humanize(name) ==
    [i \in 1..Len(name) |->
        IF IsWhole(name[i]) /\ name[i].s # "x"
        THEN Lit(HumanizeWord(name[i].s))
        ELSE name[i]]

EndsWithExt(str) == EndsWithWord(str, ".pdf") \/ EndsWithWord(str, ".docx")

\* the title taken from a mapped url, or the old title
ImprovedTitle(title, mapped_url) ==
    IF Contains(UrlQuery(mapped_url), "file=")
    THEN LET file_param == FileParam(UrlQuery(mapped_url))
             filename == Basename(file_param)
         IN IF file_param # << >> /\ filename # << >>
            THEN Humanize(SplitextBase(filename))
            ELSE title
    ELSE IF EndsWithExt(mapped_url)
         THEN Humanize(SplitextBase(Basename(mapped_url)))
         ELSE title

\* --------------------------------------------------------- text parsing
NL == Lit("\n")

Min(set) == CHOOSE x \in set : \A y \in set : x <= y

\* str without its leading line breaks
RECURSIVE DropNewlines(_)
DropNewlines(str) ==
    IF str # << >> /\ Is(Head(str), "\n") THEN DropNewlines(Tail(str)) ELSE str

\* re.split(r'\n\n+', str), cur being the paragraph read so far
RECURSIVE SplitParas(_, _)
SplitParas(str, cur) ==
    IF str = << >> THEN << cur >>
    ELSE IF Len(str) >= 2 /\ Is(str[1], "\n") /\ Is(str[2], "\n")
         THEN << cur >> \o SplitParas(DropNewlines(str), << >>)
         ELSE SplitParas(Tail(str), Append(cur, Head(str)))

\* words holding a ']' and words holding a ')'
CloseBracketWords == {"]("}
CloseParenWords == {")"}

\* the first index after i of a token of one of the words, 0 if none
NextOf(str, i, words) ==
    LET at == {j \in (i + 1)..Len(str) : str[j].s \in words}
    IN IF at = {} THEN 0 ELSE Min(at)

\* does \[([^\]]+)\]\(([^)]+)\) match str at token i
MdMatchesAt(str, i) ==
    /\ Is(str[i], "[")
    /\ LET j == NextOf(str, i, CloseBracketWords)
       IN /\ j > i + 1
          /\ NextOf(str, j, CloseParenWords) > j + 1

\* a text parser that never finds a markdown link
MarkdownMatchNever(para) == [found |-> FALSE, title |-> << >>, url |-> << >>]

\* re.search(r'\[([^\]]+)\]\(([^)]+)\)', para): << found, group 1, group 2 >>
MarkdownMatch(para) ==
    LET at == {i \in 1..Len(para) : MdMatchesAt(para, i)}
    IN IF at = {} THEN [found |-> FALSE, title |-> << >>, url |-> << >>]
       ELSE LET i == Min(at)
                j == NextOf(para, i, CloseBracketWords)
                k == NextOf(para, j, CloseParenWords)
            IN [found |-> TRUE,
                title |-> SubSeq(para, i + 1, j - 1),
                url |-> SubSeq(para, j + 1, k - 1)]

OrdinalWords == {"1.", "2."}

\* re.sub(r'^\*{0,2}\d+\.\s*\*{0,2}\s*', '', title)
OrdinalStrip(title) ==
    LET a == IF StartsWithWord(title, "**") THEN Tail(title) ELSE title
    IN IF a # << >> /\ a[1].s \in OrdinalWords /\ IsWhole(a[1])
       THEN LET b == LStrip(Tail(a))
                c == IF StartsWithWord(b, "**") THEN Tail(b) ELSE b
            IN LStrip(c)
       ELSE title

\* a token at which https?:// matches
IsUrlStart(tok) == tok.s \in HttpWords /\ IsWhole(tok)

\* the tokens [^\s\)]+ (stop_paren) or [^\s]+ takes from the head of str
RECURSIVE UrlTail(_, _)
UrlTail(str, stop_paren) ==
    IF str = << >> \/ IsSpace(Head(str))
       \/ (stop_paren /\ Head(str).s \in CloseParenWords)
    THEN << >>
    ELSE << Head(str) >> \o UrlTail(Tail(str), stop_paren)

\* re.search(r'https?://[^\s\)]+', str): the match, or the empty string
BareUrl(str) ==
    LET at == {i \in 1..Len(str) : IsUrlStart(str[i])}
    IN IF at = {} THEN << >>
       ELSE << str[Min(at)] >> \o UrlTail(SubSeq(str, Min(at) + 1, Len(str)), TRUE)

\* re.sub(r'https?://[^\s]+', '', str)
RECURSIVE RemoveUrls(_)
RemoveUrls(str) ==
    IF str = << >> THEN << >>
    ELSE IF IsUrlStart(Head(str))
         THEN LET m == UrlTail(Tail(str), FALSE)
              IN RemoveUrls(SubSeq(str, Len(m) + 2, Len(str)))
         ELSE << Head(str) >> \o RemoveUrls(Tail(str))

\* re.sub(r'\s*-\s*$', '', str)
DashStrip(str) ==
    IF EndsWithWord(RStrip(str), "-")
    THEN RStrip(SubSeq(RStrip(str), 1, Len(RStrip(str)) - 1))
    ELSE str

\* ------------------------------------------------------- result formatter
\* citations[:20], title[:200], snippet[:500], agent_response[:250]
MaxResults == 20
MaxTitleLen == 200
MaxSnippetLen == 500
SnippetFromTextLen == 250

\* dict.get(key, default)
Get(dict, key, default) == IF key \in DOMAIN dict THEN dict[key] ELSE default

SearchResult(title, url, snippet) ==
    [title |-> title, url |-> url, snippet |-> snippet]

\* the loop body without the test "mapped_url and mapped_url != '#'"
CitationResultKeepingMarker(citation, i, agent_response) ==
    LET url == Get(citation, "url", S("#"))
        snippet == Get(citation, "snippet", EmptyStr)
    IN << SearchResult(Get(citation, "title", S("Result ") \o S(ToString(i + 1))),
                       IF Get(citation, "source", "Unknown") = "AI Search"
                          /\ url # S("#")
                       THEN map_document_id_to_url(url) ELSE url,
                       IF ~Falsy(snippet) THEN snippet
                       ELSE Take(agent_response, SnippetFromTextLen)) >>

\* the loop body with the resolver applied whatever the source
CitationResultMappingAll(citation, i, agent_response) ==
    LET title == Get(citation, "title", S("Result ") \o S(ToString(i + 1)))
        url == Get(citation, "url", S("#"))
        snippet == Get(citation, "snippet", EmptyStr)
        mapped_url == IF url # S("#") THEN map_document_id_to_url(url) ELSE url
    IN IF ~Falsy(mapped_url) /\ mapped_url # S("#")
       THEN << SearchResult(title, mapped_url,
                            IF ~Falsy(snippet) THEN snippet
                            ELSE Take(agent_response, SnippetFromTextLen)) >>
       ELSE << >>

\* one pass of the loop over citations[:20]: the results it appends
CitationResult(citation, i, agent_response) ==
    LET title == Get(citation, "title", S("Result ") \o S(ToString(i + 1)))
        url == Get(citation, "url", Sentinel)
        snippet == Get(citation, "snippet", EmptyStr)
        source == Get(citation, "source", "Unknown")
        mapped_url ==
            IF source = "AI Search"
            THEN IF url # Sentinel THEN map_document_id_to_url(url) ELSE Sentinel
            ELSE url
        new_title ==
            IF StartsWithWord(title, "doc_") /\ mapped_url # url
            THEN ImprovedTitle(title, mapped_url)
            ELSE title
    IN IF ~Falsy(mapped_url) /\ mapped_url # Sentinel
       THEN << SearchResult(new_title, mapped_url,
                            IF ~Falsy(snippet) THEN snippet
                            ELSE Take(agent_response, SnippetFromTextLen)) >>
       ELSE << >>

\* does one pass of the loop raise: map_document_id_to_url(None) calls
\* None.startswith, and so does title.startswith on a title that is None
CitationRaises(citation) ==
    \/ /\ Get(citation, "source", "Unknown") = "AI Search"
       /\ Get(citation, "url", Sentinel) = NoneStr
    \/ Get(citation, "title", EmptyStr) = NoneStr

\* does format_as_search_results raise on this Optional[List] of citations
FormatRaises(citations) ==
    /\ Truthy(citations)
    /\ \E i \in 1..Len(citations.v) :
           i <= MaxResults /\ CitationRaises(citations.v[i])

\* the loop over all the citations, without the slice [:20]
RECURSIVE CitationResultsUncapped(_, _, _)
CitationResultsUncapped(citations, i, agent_response) ==
    IF i >= Len(citations) THEN << >>
    ELSE CitationResult(citations[i + 1], i, agent_response)
         \o CitationResultsUncapped(citations, i + 1, agent_response)

\* the loop over citations[:20], from the i-th (0-based) on
RECURSIVE CitationResults(_, _, _)
CitationResults(citations, i, agent_response) ==
    IF i >= Len(citations) \/ i >= MaxResults THEN << >>
    ELSE CitationResult(citations[i + 1], i, agent_response)
         \o CitationResults(citations, i + 1, agent_response)

\* the identifiers the loop over citations[:20] passes to the resolver
RECURSIVE CitationLookups(_, _)
CitationLookups(citations, i) ==
    IF i >= Len(citations) \/ i >= MaxResults THEN << >>
    ELSE LET url == Get(citations[i + 1], "url", Sentinel)
         IN (IF Get(citations[i + 1], "source", "Unknown") = "AI Search"
                /\ url # Sentinel
             THEN << url >> ELSE << >>)
            \o CitationLookups(citations, i + 1)

\* the identifiers one call of format_as_search_results resolves
FormatLookups(citations) ==
    IF Truthy(citations) THEN CitationLookups(citations.v, 0) ELSE << >>

\* para.split('\n')[0] and '\n'.join(para.split('\n')[1:])
FirstLine(para) == Before(para, "\n")
AfterFirstLine(para) == After(para, "\n")

\* the loop body without the cuts title[:200] and snippet[:500]
ParagraphResultUncut(para) ==
    IF Strip(para) = << >> THEN << >>
    ELSE LET md == MarkdownMatch(para)
             title ==
                 IF md.found THEN OrdinalStrip(Strip(md.title))
                 ELSE Strip(DashStrip(Strip(RemoveUrls(
                          OrdinalStrip(Strip(FirstLine(para)))))))
             url ==
                 IF md.found THEN Strip(md.url)
                 ELSE IF BareUrl(para) # << >> THEN BareUrl(para) ELSE Sentinel
             snippet ==
                 IF Contains(para, "\n") THEN Strip(AfterFirstLine(para)) ELSE para
         IN IF title # << >> /\ url # Sentinel
            THEN << SearchResult(title, url, snippet) >>
            ELSE << >>

\* one pass of the loop over the paragraphs: the results it appends
ParagraphResult(para) ==
    IF Strip(para) = << >> THEN << >>
    ELSE LET md == MarkdownMatch(para)
             title ==
                 IF md.found THEN OrdinalStrip(Strip(md.title))
                 ELSE Strip(DashStrip(Strip(RemoveUrls(
                          OrdinalStrip(Strip(FirstLine(para)))))))
             url ==
                 IF md.found THEN Strip(md.url)
                 ELSE IF BareUrl(para) # << >> THEN BareUrl(para) ELSE Sentinel
             snippet ==
                 IF Contains(para, "\n") THEN Strip(AfterFirstLine(para)) ELSE para
         IN IF title # << >> /\ url # Sentinel
            THEN << SearchResult(
                        IF StrLen(title) > MaxTitleLen
                        THEN Take(title, MaxTitleLen) ELSE title,
                        url,
                        IF StrLen(snippet) > MaxSnippetLen
                        THEN Take(snippet, MaxSnippetLen) ELSE snippet) >>
            ELSE << >>

RECURSIVE ParagraphResults(_)
ParagraphResults(paragraphs) ==
    IF paragraphs = << >> THEN << >>
    ELSE ParagraphResult(Head(paragraphs)) \o ParagraphResults(Tail(paragraphs))

\* the results parsed from the response text
ParsedResults(agent_response) ==
    ParagraphResults(SplitParas(Strip(agent_response), << >>))

FallbackResult(agent_response) ==
    SearchResult(S("Search Results from VA Assistant"), Sentinel, agent_response)

\* the formatter without its last step, the single fallback result
format_without_placeholder(agent_response, citations, is_search_mode) ==
    LET from_citations ==
            IF Truthy(citations)
            THEN CitationResults(citations.v, 0, agent_response)
            ELSE << >>
    IN IF from_citations = << >> /\ agent_response # << >> /\ is_search_mode
       THEN ParsedResults(agent_response)
       ELSE from_citations

\* the formatter parsing the text in search mode whatever the citations gave
format_parsing_beside_citations(agent_response, citations, is_search_mode) ==
    LET from_citations ==
            IF Truthy(citations)
            THEN CitationResults(citations.v, 0, agent_response)
            ELSE << >>
        from_text ==
            IF agent_response # << >> /\ is_search_mode
            THEN from_citations \o ParsedResults(agent_response)
            ELSE from_citations
    IN IF from_text = << >>
       THEN << FallbackResult(agent_response) >>
       ELSE from_text

\* citations is an Optional[List]
format_as_search_results(agent_response, citations, is_search_mode) ==
    LET from_citations ==
            IF Truthy(citations)
            THEN CitationResults(citations.v, 0, agent_response)
            ELSE << >>
        from_text ==
            IF from_citations = << >> /\ agent_response # << >> /\ is_search_mode
            THEN ParsedResults(agent_response)
            ELSE from_citations
    IN IF from_text = << >>
       THEN << FallbackResult(agent_response) >>
       ELSE from_text

\* ---------------------------------------------------- citation extraction
\* An annotation is a record holding the attributes it has (hasattr is
\* membership in DOMAIN); an attribute that is None holds NullObj.
NullObj == [null |-> TRUE]
IsObj(val) == "null" \notin DOMAIN val

HasObj(ann, attr) == attr \in DOMAIN ann /\ IsObj(ann[attr])

\* f'{label}{idx+1}'
Numbered(label, idx) == S(label) \o S(ToString(idx + 1))

Citation(title, url, snippet, source) ==
    [title |-> title, url |-> url, snippet |-> snippet, source |-> source]

\* the title chat_with_agent derives for a url citation titled doc_...
UrlCitationTitle(raw_title, citation_url) ==
    IF StartsWithWord(raw_title, "doc_") /\ citation_url # Sentinel
       /\ Contains(UrlQuery(citation_url), "file=")
    THEN LET file_param == FileParam(UrlQuery(citation_url))
             filename == Basename(file_param)
         IN IF file_param # << >> /\ EndsWithExt(filename)
            THEN Humanize(SubSeq(filename, 1, Len(filename) - 1))
            ELSE raw_title
    ELSE raw_title

\* the primary branch trying the bare url property before the containers
PrimaryRawCitationUrlFirst(ann, idx) ==
    IF "url" \in DOMAIN ann
    THEN << Citation(Get(ann, "title", Numbered("Source ", idx)), ann.url,
                     Get(ann, "text", Get(ann, "snippet", EmptyStr)),
                     "AI Search") >>
    ELSE IF HasObj(ann, "url_citation")
    THEN << Citation(Get(ann.url_citation, "title",
                         Numbered("Search Result ", idx)),
                     Get(ann.url_citation, "url", S("#")),
                     Get(ann.url_citation, "snippet", EmptyStr), "AI Search") >>
    ELSE IF HasObj(ann, "file_citation")
    THEN << Citation(Numbered("Document ", idx),
                     Get(ann.file_citation, "file_id", EmptyStr),
                     Get(ann.file_citation, "quote", EmptyStr), "AI Search") >>
    ELSE << >>

\* the citation the primary branch decodes from annotation ann at index idx
\* (0-based), before url mapping: a sequence of zero or one citation
PrimaryRawCitation(ann, idx) ==
    IF HasObj(ann, "url_citation")
    THEN LET url_cit == ann.url_citation
             raw_title == Get(url_cit, "title", Numbered("Search Result ", idx))
             citation_url == Get(url_cit, "url", Sentinel)
         IN << Citation(UrlCitationTitle(raw_title, citation_url), citation_url,
                        Get(url_cit, "snippet", EmptyStr), "AI Search") >>
    ELSE IF HasObj(ann, "file_citation")
    THEN LET file_cit == ann.file_citation
             file_id == Get(file_cit, "file_id", EmptyStr)
             quote == Get(file_cit, "quote", EmptyStr)
             given_url == Get(file_cit, "url", EmptyStr)
             citation_url ==
                 IF Falsy(given_url) \/ StartsWithWord(given_url, "doc_")
                 THEN file_id
                 ELSE given_url
         IN << Citation(IF ~Falsy(file_id) /\ ~StartsWithWord(file_id, "doc_")
                        THEN file_id
                        ELSE Numbered("Document ", idx),
                        citation_url, quote, "AI Search") >>
    ELSE IF "url" \in DOMAIN ann
    THEN << Citation(Get(ann, "title", Numbered("Source ", idx)), ann.url,
                     Get(ann, "text", Get(ann, "snippet", EmptyStr)),
                     "AI Search") >>
    ELSE IF "text" \in DOMAIN ann /\ BareUrl(ann.text) # << >>
    THEN << Citation(Numbered("Reference ", idx), BareUrl(ann.text), ann.text,
                     "AI Search") >>
    ELSE << >>

\* "Add citation if we extracted one": url mapping and title improvement
MappedCitation(citation) ==
    LET original_url == citation.url
        mapped_url ==
            IF original_url # Sentinel
            THEN map_document_id_to_url(original_url)
            ELSE Sentinel
    IN IF mapped_url # original_url
       THEN [citation EXCEPT
                !.url = mapped_url,
                !.title =
                    IF StartsWithWord(citation.title, "Document ")
                       \/ StartsWithWord(citation.title, "Search Result ")
                    THEN ImprovedTitle(citation.title, mapped_url)
                    ELSE citation.title]
       ELSE citation

\* does the primary branch raise on annotation ann: raw_title.startswith on
\* a title that is None, urlparse or map_document_id_to_url on a url that
\* is None, re.search on a text that is None, citation['title'].startswith
\* on a None title once the url was mapped
PrimaryRaises(ann, idx) ==
    LET raw == PrimaryRawCitation(ann, idx)
    IN \/ /\ HasObj(ann, "url_citation")
          /\ Get(ann.url_citation, "title", EmptyStr) = NoneStr
       \/ /\ ~HasObj(ann, "url_citation") /\ ~HasObj(ann, "file_citation")
          /\ "url" \notin DOMAIN ann
          /\ "text" \in DOMAIN ann /\ ann.text = NoneStr
       \/ /\ raw # << >>
          /\ \/ raw[1].url = NoneStr
             \/ /\ raw[1].title = NoneStr
                /\ raw[1].url # Sentinel
                /\ map_document_id_to_url(raw[1].url) # raw[1].url

\* does the loop over the primary message's annotations raise
PrimaryLoopRaises(annotations) ==
    \E k \in 1..Len(annotations) : PrimaryRaises(annotations[k], k - 1)

\* the loop over the primary message's annotations, from index idx on
RECURSIVE PrimaryCitations(_, _)
PrimaryCitations(annotations, idx) ==
    IF idx >= Len(annotations) THEN << >>
    ELSE LET raw == PrimaryRawCitation(annotations[idx + 1], idx)
         IN (IF raw # << >> THEN << MappedCitation(raw[1]) >> ELSE << >>)
            \o PrimaryCitations(annotations, idx + 1)

\* the identifiers the primary annotation loop passes to the resolver
RECURSIVE PrimaryLookups(_, _)
PrimaryLookups(annotations, idx) ==
    IF idx >= Len(annotations) THEN << >>
    ELSE LET raw == PrimaryRawCitation(annotations[idx + 1], idx)
         IN (IF raw # << >> /\ raw[1].url # Sentinel
             THEN << raw[1].url >> ELSE << >>)
            \o PrimaryLookups(annotations, idx + 1)

\* the citation the fallback branch decodes from annotation ann
FallbackCitation(ann, idx) ==
    IF HasObj(ann, "url_citation")
    THEN LET url_cit == ann.url_citation
         IN << Citation(Get(url_cit, "title", Numbered("Web Result ", idx)),
                        Get(url_cit, "url", Sentinel),
                        Get(url_cit, "snippet", EmptyStr), "Bing Search") >>
    ELSE IF HasObj(ann, "file_citation")
    THEN LET file_cit == ann.file_citation
         IN << Citation(Get(file_cit, "title", Numbered("Source ", idx)),
                        Get(file_cit, "url", Sentinel),
                        Get(file_cit, "snippet", EmptyStr), "Bing Search") >>
    ELSE IF "url" \in DOMAIN ann
    THEN << Citation(Get(ann, "title", Numbered("Web Source ", idx)), ann.url,
                     Get(ann, "text", Get(ann, "snippet", EmptyStr)),
                     "Bing Search") >>
    ELSE IF "text" \in DOMAIN ann /\ BareUrl(ann.text) # << >>
    THEN << Citation(Numbered("Web Reference ", idx), BareUrl(ann.text),
                     ann.text, "Bing Search") >>
    ELSE << >>

\* does the fallback branch raise on annotation ann: re.search on a text
\* that is None
FallbackRaises(ann) ==
    /\ ~HasObj(ann, "url_citation") /\ ~HasObj(ann, "file_citation")
    /\ "url" \notin DOMAIN ann
    /\ "text" \in DOMAIN ann /\ ann.text = NoneStr

\* does the loop over the fallback message's annotations raise
FallbackLoopRaises(annotations) ==
    \E k \in 1..Len(annotations) : FallbackRaises(annotations[k])

\* the loop over the fallback message's annotations, from index idx on
RECURSIVE FallbackCitations(_, _)
FallbackCitations(annotations, idx) ==
    IF idx >= Len(annotations) THEN << >>
    ELSE FallbackCitation(annotations[idx + 1], idx)
         \o FallbackCitations(annotations, idx + 1)

\* ------------------------------------------------------ fallback decision
\* len(primary_response_text.strip()) < 200
ShortTextLen == 200

NoResultsWord == "NO_RESULTS_FOUND"

no_results_indicators ==
    { S(NoResultsWord),
      S("no") \o S(" ") \o S("results"),
      S("couldn't") \o S(" ") \o S("find"),
      S("no") \o S(" ") \o S("information"),
      S("not") \o S(" ") \o S("found"),
      S("no") \o S(" ") \o S("relevant") }

\* any(indicator.lower() in primary_response_text.lower() for indicator in ...)
has_no_results(text) ==
    \E indicator \in no_results_indicators :
        ContainsStr(Lower(text), Lower(indicator))

\* a decision that runs the fallback whatever the primary answered
DecideFallbackAlways(mode, text, citations) == TRUE

\* use_fallback once an assistant text message has been read
DecideFallback(mode, text, citations) ==
    IF mode = "chat"
    THEN has_no_results(text)
         \/ (citations = << >> /\ StrLen(Strip(text)) < ShortTextLen)
    ELSE TRUE

\* ------------------------------------------------------------------ merging
KbHeading == << Lit("## Knowledge Base Results"), NL, NL >>
WebHeading == << Lit("## Web Search Results"), NL, NL >>

\* the inclusion test without the check of the run's status
IncludePrimaryAnyStatus(text, status) ==
    text # << >> /\ ~Contains(text, NoResultsWord)

\* "Only include ... if it has actual results (not NO_RESULTS_FOUND)"
IncludePrimary(text, status) ==
    text # << >> /\ status # "failed" /\ ~Contains(text, NoResultsWord)

IncludeFallback(text) == text # << >> /\ ~Contains(text, NoResultsWord)

\* combined_response before the check "if not combined_response.strip()"
CombinedSections(ptext, status, ftext) ==
    (IF IncludePrimary(ptext, status)
     THEN KbHeading \o ptext \o << NL, NL >> ELSE << >>)
    \o (IF IncludeFallback(ftext) THEN WebHeading \o ftext ELSE << >>)

\* raw_responses before that check
RawSections(ptext, status, ftext) ==
    (IF IncludePrimary(ptext, status) THEN ptext \o << NL, NL >> ELSE << >>)
    \o (IF IncludeFallback(ftext) THEN ftext ELSE << >>)

CombinedResponse(ptext, status, ftext) ==
    IF Strip(CombinedSections(ptext, status, ftext)) = << >>
    THEN ftext
    ELSE CombinedSections(ptext, status, ftext)

RawResponses(ptext, status, ftext) ==
    IF Strip(CombinedSections(ptext, status, ftext)) = << >>
    THEN ftext
    ELSE RawSections(ptext, status, ftext)

\* the search-mode return with the fallback's citations put first
SearchReturnFallbackFirst(ptext, status, pcits, ftext, fcits, tid) ==
    << CombinedResponse(ptext, status, ftext), tid, OrNone(fcits \o pcits),
       Some(Strip(RawResponses(ptext, status, ftext))) >>

\* STEP 3 in search mode: the returned 4-tuple
SearchReturn(ptext, status, pcits, ftext, fcits, tid) ==
    << CombinedResponse(ptext, status, ftext), tid, OrNone(pcits \o fcits),
       Some(Strip(RawResponses(ptext, status, ftext))) >>

\* the preference without "or use_fallback"
PreferFallbackIfPrimaryEmpty(ptext, ftext, use_fb) ==
    ftext # << >> /\ ptext = << >>

\* chat mode: is the fallback's answer the one returned
PreferFallback(ptext, ftext, use_fb) == ftext # << >> /\ (ptext = << >> \/ use_fb)

\* the chat-mode return that keeps the primary's citations in both branches
ChatReturnPrimaryCitations(ptext, pcits, ftext, fcits, use_fb, tid) ==
    IF ftext # << >> /\ (ptext = << >> \/ use_fb)
    THEN << ftext, tid, OrNone(pcits), NoneOpt >>
    ELSE << ptext, tid, OrNone(pcits), NoneOpt >>

\* STEP 3 in chat mode: the returned 4-tuple
ChatReturn(ptext, pcits, ftext, fcits, use_fb, tid) ==
    IF PreferFallback(ptext, ftext, use_fb)
    THEN << ftext, tid, OrNone(fcits), NoneOpt >>
    ELSE << ptext, tid, OrNone(pcits), NoneOpt >>

\* the return of chat mode when the fallback run failed: a 3-tuple
FallbackFailedReturn(ptext, pcits, tid) == << ptext, tid, OrNone(pcits) >>

\* ------------------------------------------------- the agent service
UserMessage(content) ==
    [role |-> "user",
     text_messages |-> << [value |-> content, annotations |-> << >>] >>]

AssistantMessage(text, annotations) ==
    [role |-> "assistant",
     text_messages |-> << [value |-> text, annotations |-> annotations] >>]

\* an assistant message without text content
AssistantNoText == [role |-> "assistant", text_messages |-> << >>]

\* messages.list(thread_id, order=DESCENDING, limit=1): zero or one message
LatestMessages(thread) ==
    IF thread = << >> THEN << >> ELSE << thread[Len(thread)] >>

\* concatenation of a sequence of strings
RECURSIVE Concat(_)
Concat(strs) == IF strs = << >> THEN << >> ELSE Head(strs) \o Concat(Tail(strs))

\* the pieces the agents' texts are made of
NotFoundPhrase == S("Not") \o S(" ") \o S("Found")
TextSegments ==
    { S(NoResultsWord), NotFoundPhrase, S(" "), S("c"),
      << Run(199) >>, << Run(500) >> }

\* texts the primary agent may answer
PrimaryTexts == {Concat(segs) : segs \in BoundedSeq(TextSegments, MaxTextLen)}

\* texts the fallback agent may answer
FallbackTexts == {EmptyStr, S(NoResultsWord), S("c")}

\* annotations of the knowledge-base agent and of the web agent
KbAnnotation ==
    [type |-> "url_citation",
     url_citation |-> [title |-> S("doc_") \o S("1"), url |-> S("doc_") \o S("1")]]
WebAnnotation ==
    [type |-> "url_citation",
     url_citation |-> [title |-> S("Bing"), url |-> S("https://bing/") \o S("page")]]
UnknownAnnotation == [type |-> "unknown"]
\* a url citation whose container has no url attribute
NoUrlAnnotation ==
    [type |-> "url_citation", url_citation |-> [title |-> S("Untitled")]]

\* a url citation whose title is null
NullTitleAnnotation ==
    [type |-> "url_citation",
     url_citation |-> [title |-> NoneStr, url |-> S("https://x/") \o S("page")]]
\* a url citation without a title attribute
UntitledAnnotation ==
    [type |-> "url_citation", url_citation |-> [url |-> S("doc_") \o S("1")]]
\* a url citation whose title and url are empty
EmptyAnnotation ==
    [type |-> "url_citation",
     url_citation |-> [title |-> EmptyStr, url |-> EmptyStr]]
\* a file citation
FileAnnotation ==
    [type |-> "file_citation",
     file_citation |-> [file_id |-> S("doc_") \o S("1"), quote |-> S("quoted")]]
\* an annotation with the attributes of all four shapes
SeveralShapesAnnotation ==
    [type |-> "url_citation",
     url_citation |-> [title |-> S("Guide"), url |-> S("https://x/") \o S("Guide")],
     file_citation |-> [file_id |-> S("doc_") \o S("2"), quote |-> S("quoted")],
     url |-> S("https://x/") \o S("page"),
     text |-> S("see") \o S(" ") \o S("https://x/") \o S("y")]
\* file citation, url property and text together
FileFirstAnnotation ==
    [type |-> "file_citation",
     file_citation |-> [file_id |-> S("report"), url |-> S("https://x/") \o S("y"),
                        title |-> S("Report"), quote |-> S("quoted")],
     url |-> S("https://x/") \o S("page"),
     text |-> S("see") \o S(" ") \o S("https://x/") \o S("Guide")]
\* a bare url property, with a text that holds another url
BareUrlAnnotation ==
    [type |-> "link", url |-> S("https://x/") \o S("page"), title |-> S("Page"),
     text |-> S("see") \o S(" ") \o S("https://x/") \o S("Guide")]
\* a bare url property whose title is null
BareUrlNullTitleAnnotation ==
    [type |-> "link", url |-> S("https://x/") \o S("page"), title |-> NoneStr]
\* free text with a url in it, the url_citation container being null
TextUrlAnnotation ==
    [type |-> "text", url_citation |-> NullObj,
     text |-> S("see") \o S(" ") \o S("https://x/") \o S("Guide")]
\* free text without a url
TextPlainAnnotation == [type |-> "text", text |-> S("c")]
\* a text attribute that is null
NullTextAnnotation == [type |-> "text", text |-> NoneStr]

\* one annotation of every shape, well formed or not
ShapeAnnotations ==
    { KbAnnotation, UnknownAnnotation, NoUrlAnnotation, NullTitleAnnotation,
      UntitledAnnotation, EmptyAnnotation, FileAnnotation,
      SeveralShapesAnnotation, FileFirstAnnotation, BareUrlAnnotation,
      BareUrlNullTitleAnnotation, TextUrlAnnotation, TextPlainAnnotation,
      NullTextAnnotation }

\* an annotation alone, and followed or preceded by a well-formed one
ShapeLists(good) ==
    {<< a >> : a \in ShapeAnnotations}
    \cup {<< a, good >> : a \in ShapeAnnotations}
    \cup {<< good, a >> : a \in ShapeAnnotations}

PrimaryAnnotationLists ==
    BoundedSeq({KbAnnotation}, MaxAnnotations)
    \cup {<< UnknownAnnotation >>, << NoUrlAnnotation >>,
          << KbAnnotation, NoUrlAnnotation >>}
FallbackAnnotationLists == BoundedSeq({WebAnnotation}, MaxAnnotations)

\* what a run can do: its final status and the messages it appended
RunOutcomes(texts, annotation_lists, partial) ==
    {[status |-> "completed", posted |-> << AssistantMessage(text, anns) >>] :
        text \in texts, anns \in annotation_lists}
    \cup {[status |-> "completed", posted |-> << AssistantNoText >>],
          [status |-> "expired", posted |-> << >>],
          [status |-> "failed", posted |-> << >>],
          [status |-> "failed", posted |-> << partial >>]}

\* answers whose annotations are of every shape
ShapeOutcomes(texts, good) ==
    {[status |-> "completed", posted |-> << AssistantMessage(text, anns) >>] :
        text \in texts, anns \in ShapeLists(good)}

PrimaryOutcomes ==
    RunOutcomes(PrimaryTexts, PrimaryAnnotationLists,
                AssistantMessage(S("c"), << KbAnnotation >>))
    \cup ShapeOutcomes({S("c"), << Run(500) >>}, KbAnnotation)
FallbackOutcomes ==
    RunOutcomes(FallbackTexts, FallbackAnnotationLists,
                AssistantMessage(S("c"), << WebAnnotation >>))
    \cup ShapeOutcomes({S("c")}, WebAnnotation)

\* --------------------------------------------------------------- requests
Modes == {"chat", "search"}
ExistingThread == "thread_1"
NewThread == "thread_2"

\* the thread the service already holds: one earlier exchange
EarlierTurn ==
    << UserMessage(S("hello")), AssistantMessage(S("c"), << KbAnnotation >>) >>

\* a thread_id that is the empty string
NoThreadId == ""

Requests ==
    [message : {S("q")}, thread_id : {None, NoThreadId, ExistingThread},
     mode : Modes]

SearchInstruction == S(" - is the user's search question. - provide a traditional bing search response")
ChatInstruction == << NL, NL >> \o S("IMPORTANT: Format your response to be clear and readable.")

\* the message chat() passes to chat_with_agent
AgentMessage(req) ==
    IF req.mode = "search" THEN req.message \o SearchInstruction
    ELSE req.message \o ChatInstruction

NoRun == [status |-> "none"]
NoResult == [kind |-> "none"]
NoCall == [kind |-> "none"]

\* no request taken yet
NoRequest ==
    /\ threads = [t \in {ExistingThread} |-> EarlierTurn]
    /\ thread_id = None
    /\ service_calls = << >>
    /\ run = NoRun
    /\ fallback_run = NoRun
    /\ primary_response_text = EmptyStr
    /\ primary_citations = << >>
    /\ use_fallback = FALSE
    /\ fallback_response_text = EmptyStr
    /\ fallback_citations = << >>
    /\ result = NoResult
    /\ response = NoResult
    /\ results = << >>

\* after startup: the table loaded, no request taken yet
Idle ==
    /\ url_mapping = LoadUrlMapping
    /\ NoRequest

Init ==
    /\ Idle
    /\ fallback_agent_id \in {None, "bing_agent"}
    /\ request \in Requests
    /\ pc = "start"
    /\ call = NoCall
    /\ inflight = << >>

\* ------------------------------------------------------- chat_with_agent
Return(values) == [kind |-> "return", values |-> values]
Raise(detail) == [kind |-> "raise", detail |-> detail]

\* one call on the agents client: the operation and the thread it names
ServiceCall(op, tid) == [op |-> op, thread_id |-> tid]

\* the request's thread identifier ignored: a thread is created every time
HasThreadIdNever(tid) == FALSE

\* "if thread_id:" on the Optional[str] the request carried
HasThreadId(tid) == tid \notin {None, NoThreadId}

\* "Get or create thread"
GetOrCreateThread ==
    /\ pc = "start"
    /\ IF HasThreadId(request.thread_id)
       THEN /\ thread_id' = request.thread_id
            /\ UNCHANGED << threads, service_calls >>
       ELSE /\ thread_id' = NewThread
            /\ threads' = [t \in DOMAIN threads \cup {NewThread} |->
                              IF t = NewThread THEN << >> ELSE threads[t]]
            /\ service_calls' =
                   Append(service_calls, ServiceCall("threads.create", NewThread))
    /\ pc' = "post"
    /\ UNCHANGED << config_vars, run, fallback_run, primary_vars, fallback_vars,
                    result, response, call_vars, inflight >>

\* "Create user message"
PostUserMessage ==
    /\ pc = "post"
    /\ threads' = [threads EXCEPT
                      ![thread_id] = Append(@, UserMessage(AgentMessage(request)))]
    /\ service_calls' =
           Append(service_calls, ServiceCall("messages.create", thread_id))
    /\ pc' = "primary_run"
    /\ UNCHANGED << config_vars, thread_id, run, fallback_run, primary_vars,
                    fallback_vars, result, response, call_vars, inflight >>

\* the primary run followed at once by the fallback run, the primary's
\* response not read in between
PrimaryRunThenFallback ==
    /\ pc = "primary_run"
    /\ \E outcome \in PrimaryOutcomes :
         /\ threads' = [threads EXCEPT ![thread_id] = @ \o outcome.posted]
         /\ run' = [status |-> outcome.status]
         /\ service_calls' =
                Append(service_calls,
                       ServiceCall("runs.create_and_process", thread_id))
         /\ IF outcome.status = "failed" /\ request.mode # "search"
            THEN /\ result' = Raise(S("Primary agent run failed"))
                 /\ pc' = "returned"
            ELSE /\ result' = result
                 /\ pc' = "fallback_run"
    /\ UNCHANGED << config_vars, thread_id, fallback_run, primary_vars,
                    fallback_vars, response, call_vars, inflight >>

\* STEP 1: the primary run and the check of its status
PrimaryRun ==
    /\ pc = "primary_run"
    /\ \E outcome \in PrimaryOutcomes :
         /\ threads' = [threads EXCEPT ![thread_id] = @ \o outcome.posted]
         /\ run' = [status |-> outcome.status]
         /\ service_calls' =
                Append(service_calls,
                       ServiceCall("runs.create_and_process", thread_id))
         /\ IF outcome.status = "failed" /\ request.mode # "search"
            THEN /\ result' = Raise(S("Primary agent run failed"))
                 /\ pc' = "returned"
            ELSE /\ result' = result
                 /\ pc' = "primary_read"
    /\ UNCHANGED << config_vars, thread_id, fallback_run, primary_vars,
                    fallback_vars, response, call_vars, inflight >>

\* does the loop over messages.list enter its body
IsAssistantText(msgs) ==
    msgs # << >> /\ msgs[1].role = "assistant" /\ msgs[1].text_messages # << >>

\* what the loop over messages.list leaves in primary_response_text,
\* primary_citations and use_fallback, and the identifiers it resolved
PrimaryRead(msgs, mode) ==
    IF IsAssistantText(msgs)
    THEN LET text_msg == msgs[1].text_messages[1]
             citations == PrimaryCitations(text_msg.annotations, 0)
         IN [text |-> text_msg.value,
             citations |-> citations,
             use_fallback |-> DecideFallback(mode, text_msg.value, citations),
             lookups |-> PrimaryLookups(text_msg.annotations, 0),
             raised |-> PrimaryLoopRaises(text_msg.annotations)]
    ELSE [text |-> EmptyStr, citations |-> << >>, use_fallback |-> FALSE,
          lookups |-> << >>, raised |-> FALSE]

\* what the second loop over messages.list leaves in fallback_response_text
\* and fallback_citations
FallbackRead(msgs) ==
    IF IsAssistantText(msgs)
    THEN LET text_msg == msgs[1].text_messages[1]
         IN [text |-> text_msg.value,
             citations |-> FallbackCitations(text_msg.annotations, 0),
             raised |-> FallbackLoopRaises(text_msg.annotations)]
    ELSE [text |-> EmptyStr, citations |-> << >>, raised |-> FALSE]

\* the exception an annotation loop lets out, as "except Exception" wraps it
AttributeError == S("'NoneType' object has no attribute 'startswith'")

\* the read of the primary's response followed by the fallback run whenever
\* a fallback agent is configured, use_fallback not looked at
ReadPrimaryThenFallback ==
    /\ pc = "primary_read"
    /\ LET read == PrimaryRead(LatestMessages(threads[thread_id]), request.mode)
       IN /\ primary_response_text' = read.text
          /\ primary_citations' = IF read.raised THEN << >> ELSE read.citations
          /\ use_fallback' = read.use_fallback
          /\ url_mapping' = TableAfterLookups(url_mapping, read.lookups)
          /\ IF read.raised
             THEN /\ result' = Raise(AttributeError)
                  /\ pc' = "returned"
             ELSE /\ result' = result
                  /\ pc' = IF fallback_agent_id # None
                           THEN "fallback_run" ELSE "merge"
    /\ service_calls' =
           Append(service_calls, ServiceCall("messages.list", thread_id))
    /\ UNCHANGED << fallback_agent_id, request, threads, thread_id, run,
                    fallback_run, fallback_vars, response, call_vars, inflight >>

\* "Extract primary agent response" up to the decision to run the fallback;
\* an exception raised while decoding an annotation leaves the function
\* through "except Exception" (the locals are dead from then on)
ReadPrimary ==
    /\ pc = "primary_read"
    /\ LET read == PrimaryRead(LatestMessages(threads[thread_id]), request.mode)
       IN /\ primary_response_text' = read.text
          /\ primary_citations' = IF read.raised THEN << >> ELSE read.citations
          /\ use_fallback' = read.use_fallback
          /\ url_mapping' = TableAfterLookups(url_mapping, read.lookups)
          /\ IF read.raised
             THEN /\ result' = Raise(AttributeError)
                  /\ pc' = "returned"
             ELSE /\ result' = result
                  /\ pc' = IF read.use_fallback /\ fallback_agent_id # None
                           THEN "fallback_run" ELSE "merge"
    /\ service_calls' =
           Append(service_calls, ServiceCall("messages.list", thread_id))
    /\ UNCHANGED << fallback_agent_id, request, threads, thread_id, run,
                    fallback_run, fallback_vars, response, call_vars, inflight >>

\* a fallback run that is started once more when its first attempt fails
FallbackRunRetrying ==
    /\ pc = "fallback_run"
    /\ \E outcome \in FallbackOutcomes :
         /\ threads' = [threads EXCEPT ![thread_id] = @ \o outcome.posted]
         /\ fallback_run' = [status |-> outcome.status]
         /\ service_calls' =
                Append(service_calls,
                       ServiceCall("runs.create_and_process", thread_id))
         /\ IF outcome.status = "failed"
            THEN IF fallback_run.status = "none"
                 THEN /\ result' = result
                      /\ pc' = "fallback_run"
                 ELSE IF request.mode = "chat"
                 THEN /\ result' = Return(FallbackFailedReturn(
                              primary_response_text, primary_citations, thread_id))
                      /\ pc' = "returned"
                 ELSE /\ result' = result
                      /\ pc' = "merge"
            ELSE /\ result' = result
                 /\ pc' = "fallback_read"
    /\ UNCHANGED << config_vars, thread_id, run, primary_vars, fallback_vars,
                    response, call_vars, inflight >>

\* STEP 2: the fallback run and the check of its status
FallbackRun ==
    /\ pc = "fallback_run"
    /\ \E outcome \in FallbackOutcomes :
         /\ threads' = [threads EXCEPT ![thread_id] = @ \o outcome.posted]
         /\ fallback_run' = [status |-> outcome.status]
         /\ service_calls' =
                Append(service_calls,
                       ServiceCall("runs.create_and_process", thread_id))
         /\ IF outcome.status = "failed"
            THEN IF request.mode = "chat"
                 THEN /\ result' = Return(FallbackFailedReturn(
                              primary_response_text, primary_citations, thread_id))
                      /\ pc' = "returned"
                 ELSE /\ result' = result
                      /\ pc' = "merge"
            ELSE /\ result' = result
                 /\ pc' = "fallback_read"
    /\ UNCHANGED << config_vars, thread_id, run, primary_vars, fallback_vars,
                    response, call_vars, inflight >>

\* "Extract fallback response"
ReadFallback ==
    /\ pc = "fallback_read"
    /\ LET read == FallbackRead(LatestMessages(threads[thread_id]))
       IN /\ fallback_response_text' = read.text
          /\ fallback_citations' = IF read.raised THEN << >> ELSE read.citations
          /\ IF read.raised
             THEN /\ result' = Raise(AttributeError)
                  /\ pc' = "returned"
             ELSE /\ result' = result
                  /\ pc' = "merge"
    /\ service_calls' =
           Append(service_calls, ServiceCall("messages.list", thread_id))
    /\ UNCHANGED << config_vars, threads, thread_id, run, fallback_run,
                    primary_vars, response, call_vars, inflight >>

\* STEP 3: what chat_with_agent returns from the two answers
MergeResult(mode, ptext, status, pcits, use_fb, ftext, fcits, tid) ==
    IF mode = "search"
    THEN Return(SearchReturn(ptext, status, pcits, ftext, fcits, tid))
    ELSE Return(ChatReturn(ptext, pcits, ftext, fcits, use_fb, tid))

\* STEP 3: "Combine results based on mode"
Merge ==
    /\ pc = "merge"
    /\ result' = MergeResult(request.mode, primary_response_text, run.status,
                             primary_citations, use_fallback,
                             fallback_response_text, fallback_citations,
                             thread_id)
    /\ pc' = "returned"
    /\ UNCHANGED << config_vars, service_vars, primary_vars, fallback_vars,
                    response, call_vars, inflight >>

\* ------------------------------------------------------------ /api/chat
\* the ChatResponse built from the 4-tuple chat_with_agent returned
ChatResponse(values, mode) ==
    [kind |-> "ok",
     message |-> values[1],
     thread_id |-> values[2],
     mode |-> mode,
     citations |-> values[3],
     search_results |->
         IF mode = "search"
         THEN Some(format_as_search_results(
                       IF Truthy(values[4]) THEN values[4].v ELSE values[1],
                       values[3], TRUE))
         ELSE NoneOpt]

ErrorResponse(detail) == [kind |-> "error", status_code |-> 500, detail |-> detail]

\* the length of the tuple chat() unpacks
ReturnArity == 4

\* chat(): the response for what chat_with_agent returned or raised
ResponseOf(res, mode) ==
    IF res.kind = "raise" THEN ErrorResponse(res.detail)
    ELSE IF Len(res.values) # ReturnArity
         THEN ErrorResponse(S("not enough values to unpack"))
    ELSE IF mode = "search" /\ FormatRaises(res.values[3])
         THEN ErrorResponse(AttributeError)
         ELSE ChatResponse(res.values, mode)

\* chat(): what the caller gets once chat_with_agent has returned or raised
Respond ==
    /\ pc = "returned"
    /\ response' = ResponseOf(result, request.mode)
    /\ url_mapping' =
          IF result.kind = "return" /\ Len(result.values) = ReturnArity
             /\ request.mode = "search"
          THEN TableAfterLookups(url_mapping, FormatLookups(result.values[3]))
          ELSE url_mapping
    /\ pc' = "done"
    /\ UNCHANGED << fallback_agent_id, request, service_vars, primary_vars,
                    fallback_vars, result, call_vars, inflight >>

Next ==
    \/ GetOrCreateThread
    \/ PostUserMessage
    \/ PrimaryRun
    \/ ReadPrimary
    \/ FallbackRun
    \/ ReadFallback
    \/ Merge
    \/ Respond

Spec == Init /\ [][Next]_vars

\* the positions a request may move to from position p: thread ready, primary
\* running, primary done or failed, optionally fallback running and fallback
\* done or failed, merged, returned or raised, answered
StateAfter(p) ==
    CASE p = "start" -> {"post"}
      [] p = "post" -> {"primary_run"}
      [] p = "primary_run" -> {"primary_read", "returned"}
      [] p = "primary_read" -> {"fallback_run", "merge", "returned"}
      [] p = "fallback_run" -> {"fallback_read", "merge", "returned"}
      [] p = "fallback_read" -> {"merge", "returned"}
      [] p = "merge" -> {"returned"}
      [] p = "returned" -> {"done"}
      [] OTHER -> {}

\* the handler moves on to a next position; possible at every position but
\* the last
Advance == pc' \in StateAfter(pc)

\* the request handler is one coroutine that runs on while each awaited call
\* returns: it does not stay for ever at a position it can leave
SpecFair == Spec /\ WF_pc(Advance)

\* ------------------------------------- direct calls of the formatter
\* tokens of the texts the parser is tried on
ParseTokens ==
    { NL, Lit(" "), Lit("["), Lit("]("), Lit(")"), Lit("https://x/"), Lit("Guide") }

BenefitsExample ==
    S("1.") \o S(" ") \o S("[") \o S("Benefits") \o S(" ") \o S("Guide")
    \o S("](") \o S("https://x/") \o S("benefits") \o S(")") \o << NL >>
    \o S("Details") \o S(" ") \o S("here")

\* "[Guide](https://x/guide)"
GuideLink ==
    S("[") \o S("Guide") \o S("](") \o S("https://x/") \o S("guide") \o S(")")

\* paragraphs with a markdown link: on one line, with the ordinal inside the
\* link text, followed by 600 characters, with a link text that is only an
\* ordinal, with a link text of 300 characters, and two such paragraphs
LinkSamples ==
    { GuideLink,
      S("[") \o S("1.") \o S(" ") \o S("Guide") \o S("](") \o S("https://x/")
          \o S("guide") \o S(")") \o << NL >> \o S("More"),
      GuideLink \o << NL, Run(600) >>,
      S("[") \o S("1.") \o S("](") \o S("https://x/") \o S("guide") \o S(")"),
      << Lit("["), Run(300), Lit("]("), Lit("https://x/"), Lit(")") >>,
      GuideLink \o << NL, NL >> \o BenefitsExample }

\* 600 characters without a link or a url
LongPlainText == << Run(600) >>

ParseTexts ==
    BoundedSeq(ParseTokens, MaxParseLen) \cup {BenefitsExample} \cup LinkSamples
    \cup {LongPlainText}

\* citation dicts as chat_with_agent builds them, and dicts lacking keys
CitationSamples ==
    { Citation(S("doc_") \o S("1"), S("doc_") \o S("1"), EmptyStr, "AI Search"),
      Citation(S("Document ") \o S("1"), Sentinel, S("quote"), "AI Search"),
      Citation(S("Bing"), S("https://bing/") \o S("page"), S("web"), "Bing Search"),
      Citation(S("Source ") \o S("1"), EmptyStr, EmptyStr, "Bing Search"),
      [snippet |-> S("bare")] }

CitationLists == BoundedSeq(CitationSamples, MaxAnnotations)

\* the i-th of many citations, every third one without a snippet
NumberedCitation(i) ==
    Citation(S("Page ") \o S(ToString(i)), S("https://bing/") \o S(ToString(i)),
             IF i % 3 = 0 THEN EmptyStr ELSE S("web") \o S(ToString(i)),
             "Bing Search")

\* n citations, those at the positions in unresolved having the url '#'
ManyCitations(n, unresolved) ==
    [i \in 1..n |->
        IF i \in unresolved
        THEN Citation(S("Page ") \o S(ToString(i)), Sentinel, EmptyStr, "AI Search")
        ELSE NumberedCitation(i)]

\* lists of 20 and of 21 citations
LongCitationLists ==
    { ManyCitations(MaxResults, {}),
      ManyCitations(MaxResults + 1, {}),
      ManyCitations(MaxResults + 1, {2, MaxResults}),
      ManyCitations(MaxResults + 1, 1..MaxResults) }

FormatCalls ==
    [agent_response : ParseTexts,
     citations : {NoneOpt, Some(<< >>)},
     is_search_mode : BOOLEAN]
    \cup [agent_response : {EmptyStr, S("c"), << Run(300) >>, GuideLink},
          citations : {Some(cits) : cits \in CitationLists},
          is_search_mode : BOOLEAN]
    \cup [agent_response : {S("c"), << Run(300) >>, GuideLink},
          citations : {Some(cits) : cits \in LongCitationLists},
          is_search_mode : BOOLEAN]

InitFormat ==
    /\ Idle
    /\ fallback_agent_id = None
    /\ request = [message |-> S("q"), thread_id |-> None, mode |-> "search"]
    /\ pc = "format_call"
    /\ call \in FormatCalls
    /\ inflight = << >>

\* format_as_search_results(agent_response, citations, is_search_mode)
FormatCall ==
    /\ pc = "format_call"
    /\ IF FormatRaises(call.citations)
       THEN /\ results' = results
            /\ pc' = "format_raised"
       ELSE /\ results' = format_as_search_results(
                              call.agent_response, call.citations,
                              call.is_search_mode)
            /\ pc' = "format_done"
    /\ url_mapping' = TableAfterLookups(url_mapping, FormatLookups(call.citations))
    /\ UNCHANGED << fallback_agent_id, request, service_vars, primary_vars,
                    fallback_vars, result, response, call, inflight >>

NextFormat == FormatCall

SpecFormat == InitFormat /\ [][NextFormat]_vars

\* ------------------------------------------- requests and direct calls
\* the program taking a request or a direct call of the formatter
InitCalls == Init \/ InitFormat
NextCalls == Next \/ FormatCall
SpecCalls == InitCalls /\ [][NextCalls]_vars

\* ------------------------------------------------- concurrent requests
\* Two requests in flight in the one event loop.  A coroutine gives way at
\* each await (threads.create, messages.create, runs.create_and_process,
\* messages.list); its locals are its own, the agent service (threads), the
\* table and the configuration are shared.
RequestIds == {1, 2}

\* the id threads.create gives the thread made for request r
NewThreadOf(r) == IF r = 1 THEN "thread_2" ELSE "thread_3"

\* the answers the agents give to request r
AnswerOf(r) == S("answer") \o S(ToString(r))
WebAnswerOf(r) == S("web") \o S(ToString(r))

PrimaryOutcomesOf(r) ==
    {[status |-> "completed", posted |-> << AssistantMessage(AnswerOf(r), anns) >>] :
        anns \in {<< >>, << KbAnnotation >>}}
    \cup {[status |-> "failed", posted |-> << >>]}

FallbackOutcomesOf(r) ==
    {[status |-> "completed",
      posted |-> << AssistantMessage(WebAnswerOf(r), << WebAnnotation >>) >>],
     [status |-> "failed", posted |-> << >>]}

ConcurrentRequests ==
    [message : {S("q")}, thread_id : {None, ExistingThread}, mode : Modes]

\* the locals of chat() and chat_with_agent() for one request, and what the
\* request's own two runs posted
Locals(req) ==
    [request |-> req, pc |-> "start", thread_id |-> None,
     run |-> NoRun, fallback_run |-> NoRun,
     primary_response_text |-> EmptyStr, primary_citations |-> << >>,
     use_fallback |-> FALSE,
     fallback_response_text |-> EmptyStr, fallback_citations |-> << >>,
     result |-> NoResult, response |-> NoResult,
     primary_posted |-> << >>, fallback_posted |-> << >>]

InitConcurrent ==
    /\ Idle
    /\ fallback_agent_id \in {None, "bing_agent"}
    /\ request = [message |-> S("q"), thread_id |-> None, mode |-> "chat"]
    /\ pc = "concurrent"
    /\ call = NoCall
    /\ inflight \in {[r \in RequestIds |-> Locals(IF r = 1 THEN req1 ELSE req2)] :
                         req1 \in ConcurrentRequests, req2 \in ConcurrentRequests}

single_vars ==
    << request, pc, thread_id, service_calls, run, fallback_run, primary_vars,
       fallback_vars, result, response, call_vars >>

GetOrCreateThreadOf(r) ==
    LET l == inflight[r] IN
    /\ l.pc = "start"
    /\ IF HasThreadId(l.request.thread_id)
       THEN /\ inflight' = [inflight EXCEPT ![r].thread_id = l.request.thread_id,
                                             ![r].pc = "post"]
            /\ UNCHANGED threads
       ELSE /\ inflight' = [inflight EXCEPT ![r].thread_id = NewThreadOf(r),
                                             ![r].pc = "post"]
            /\ threads' = [t \in DOMAIN threads \cup {NewThreadOf(r)} |->
                              IF t = NewThreadOf(r) THEN << >> ELSE threads[t]]
    /\ UNCHANGED << url_mapping, fallback_agent_id, single_vars >>

PostUserMessageOf(r) ==
    LET l == inflight[r] IN
    /\ l.pc = "post"
    /\ threads' = [threads EXCEPT
                      ![l.thread_id] = Append(@, UserMessage(AgentMessage(l.request)))]
    /\ inflight' = [inflight EXCEPT ![r].pc = "primary_run"]
    /\ UNCHANGED << url_mapping, fallback_agent_id, single_vars >>

PrimaryRunOf(r) ==
    LET l == inflight[r] IN
    /\ l.pc = "primary_run"
    /\ \E outcome \in PrimaryOutcomesOf(r) :
         /\ threads' = [threads EXCEPT ![l.thread_id] = @ \o outcome.posted]
         /\ inflight' =
                [inflight EXCEPT
                    ![r].run = [status |-> outcome.status],
                    ![r].primary_posted = outcome.posted,
                    ![r].result =
                        IF outcome.status = "failed" /\ l.request.mode # "search"
                        THEN Raise(S("Primary agent run failed")) ELSE @,
                    ![r].pc =
                        IF outcome.status = "failed" /\ l.request.mode # "search"
                        THEN "returned" ELSE "primary_read"]
    /\ UNCHANGED << url_mapping, fallback_agent_id, single_vars >>

ReadPrimaryOf(r) ==
    LET l == inflight[r]
        read == PrimaryRead(LatestMessages(threads[l.thread_id]), l.request.mode)
    IN
    /\ l.pc = "primary_read"
    /\ inflight' =
           [inflight EXCEPT
               ![r].primary_response_text = read.text,
               ![r].primary_citations =
                   IF read.raised THEN << >> ELSE read.citations,
               ![r].use_fallback = read.use_fallback,
               ![r].result = IF read.raised THEN Raise(AttributeError) ELSE @,
               ![r].pc = IF read.raised THEN "returned"
                         ELSE IF read.use_fallback /\ fallback_agent_id # None
                         THEN "fallback_run" ELSE "merge"]
    /\ url_mapping' = TableAfterLookups(url_mapping, read.lookups)
    /\ UNCHANGED << threads, fallback_agent_id, single_vars >>

FallbackRunOf(r) ==
    LET l == inflight[r] IN
    /\ l.pc = "fallback_run"
    /\ \E outcome \in FallbackOutcomesOf(r) :
         /\ threads' = [threads EXCEPT ![l.thread_id] = @ \o outcome.posted]
         /\ inflight' =
                [inflight EXCEPT
                    ![r].fallback_run = [status |-> outcome.status],
                    ![r].fallback_posted = outcome.posted,
                    ![r].result =
                        IF outcome.status = "failed" /\ l.request.mode = "chat"
                        THEN Return(FallbackFailedReturn(
                                 l.primary_response_text, l.primary_citations,
                                 l.thread_id))
                        ELSE @,
                    ![r].pc =
                        IF outcome.status = "failed"
                        THEN IF l.request.mode = "chat" THEN "returned" ELSE "merge"
                        ELSE "fallback_read"]
    /\ UNCHANGED << url_mapping, fallback_agent_id, single_vars >>

ReadFallbackOf(r) ==
    LET l == inflight[r]
        read == FallbackRead(LatestMessages(threads[l.thread_id]))
    IN
    /\ l.pc = "fallback_read"
    /\ inflight' =
           [inflight EXCEPT
               ![r].fallback_response_text = read.text,
               ![r].fallback_citations =
                   IF read.raised THEN << >> ELSE read.citations,
               ![r].result = IF read.raised THEN Raise(AttributeError) ELSE @,
               ![r].pc = IF read.raised THEN "returned" ELSE "merge"]
    /\ UNCHANGED << url_mapping, threads, fallback_agent_id, single_vars >>

MergeOf(r) ==
    LET l == inflight[r] IN
    /\ l.pc = "merge"
    /\ inflight' =
           [inflight EXCEPT
               ![r].result =
                   MergeResult(l.request.mode, l.primary_response_text,
                               l.run.status, l.primary_citations, l.use_fallback,
                               l.fallback_response_text, l.fallback_citations,
                               l.thread_id),
               ![r].pc = "returned"]
    /\ UNCHANGED << url_mapping, threads, fallback_agent_id, single_vars >>

RespondOf(r) ==
    LET l == inflight[r] IN
    /\ l.pc = "returned"
    /\ inflight' = [inflight EXCEPT
                       ![r].response = ResponseOf(l.result, l.request.mode),
                       ![r].pc = "done"]
    /\ url_mapping' =
          IF l.result.kind = "return" /\ Len(l.result.values) = ReturnArity
             /\ l.request.mode = "search"
          THEN TableAfterLookups(url_mapping, FormatLookups(l.result.values[3]))
          ELSE url_mapping
    /\ UNCHANGED << threads, fallback_agent_id, single_vars >>

NextConcurrent ==
    \/ \E r \in DOMAIN inflight : GetOrCreateThreadOf(r)
    \/ \E r \in DOMAIN inflight : PostUserMessageOf(r)
    \/ \E r \in DOMAIN inflight : PrimaryRunOf(r)
    \/ \E r \in DOMAIN inflight : ReadPrimaryOf(r)
    \/ \E r \in DOMAIN inflight : FallbackRunOf(r)
    \/ \E r \in DOMAIN inflight : ReadFallbackOf(r)
    \/ \E r \in DOMAIN inflight : MergeOf(r)
    \/ \E r \in DOMAIN inflight : RespondOf(r)

SpecConcurrent == InitConcurrent /\ [][NextConcurrent]_vars

\* -------------------------------------------- direct calls of the resolver
\* rows a mapping.csv may hold: a .pdf and a .docx file of one name, a name
\* without extension, names that are only an extension (os.path.splitext
\* leaves them whole), a name that is a url, and a row of one cell
CsvRows ==
    { << S("doc_") \o S("1") \o S(".pdf"), S("https://x/") \o S("one") >>,
      << S("doc_") \o S("1") \o S(".docx"), S("https://x/") \o S("two") >>,
      << S("doc_") \o S("1"), S("https://x/") \o S("three") >>,
      << S(".pdf"), S("https://x/") \o S("four") >>,
      << S(".docx"), S("https://x/") \o S("five") >>,
      << S("https://x/") \o S("page"), S("https://x/") \o S("six") >>,
      << S("doc_") \o S("3") >> }

CsvFiles == BoundedSeq(CsvRows, MaxRows)

DocIds ==
    { EmptyStr, S("doc_") \o S("1"), S("doc_") \o S("1") \o S(".pdf"),
      S("doc_") \o S("9"), S("https://x/") \o S("page"), Sentinel }

InitResolver ==
    /\ NoRequest
    /\ \E rows \in CsvFiles : url_mapping = LoadRows(rows, EmptyDict)
    /\ fallback_agent_id = None
    /\ request = [message |-> S("q"), thread_id |-> None, mode |-> "chat"]
    /\ pc = "resolve_call"
    /\ call \in [doc_id : DocIds]
    /\ inflight = << >>

\* map_document_id_to_url(doc_id)
ResolveCall ==
    /\ pc = "resolve_call"
    /\ results' = map_document_id_to_url(call.doc_id)
    /\ url_mapping' = TableAfterLookup(url_mapping, call.doc_id)
    /\ pc' = "resolve_done"
    /\ UNCHANGED << fallback_agent_id, request, service_vars, primary_vars,
                    fallback_vars, result, response, call, inflight >>

NextResolver == ResolveCall

SpecResolver == InitResolver /\ [][NextResolver]_vars

\* --------------------------------------------- every way of running
\* one request, a direct call of the formatter, or two requests in flight
InitProgram == InitCalls \/ InitConcurrent
NextProgram == NextCalls \/ NextConcurrent
SpecProgram == InitProgram /\ [][NextProgram]_vars

\* ================================================================ claims
Responded == pc = "done"
RespondedOk == pc = "done" /\ response.kind = "ok"
FallbackRan == fallback_run.status # "none"
FallbackConfigured == fallback_agent_id # None

\* C1: format_as_search_results returns a non-empty list for every response
\* text, citation list and mode flag; for no citations and an empty text in
\* search mode the list is exactly the one fallback result; and every
\* search-mode request that completes carries at least one search result.
C1_NeverEmpty ==
    /\ pc = "format_done" =>
          /\ Len(results) >= 1
          /\ (call.agent_response = EmptyStr /\ ~Truthy(call.citations)
              /\ call.is_search_mode) =>
                 results = << [title |-> S("Search Results from VA Assistant"),
                               url |-> S("#"), snippet |-> EmptyStr] >>
    /\ (RespondedOk /\ request.mode = "search") =>
          /\ ~response.search_results.none
          /\ Len(response.search_results.v) >= 1

C1_Witness ==
    /\ pc = "format_done"
    /\ call.agent_response = EmptyStr
    /\ call.citations = Some(<< >>)
    /\ call.is_search_mode
    /\ Len(results) = 1

\* C2: in chat mode, when the fallback run ends failed, the request still
\* completes successfully with the primary agent's text and citations.
C2_FallbackFailureAbsorbed ==
    (Responded /\ request.mode = "chat" /\ fallback_run.status = "failed") =>
        /\ response.kind = "ok"
        /\ response.message = primary_response_text
        /\ response.citations = OrNone(primary_citations)

\* C3: in search mode with a fallback agent configured the fallback agent is
\* run in every request, also when the primary run failed or the latest
\* message is no assistant text message; with none configured the fallback
\* step is skipped and the request completes without error.
C3_SearchAlwaysRunsFallback ==
    (Responded /\ request.mode = "search") =>
        IF FallbackConfigured
        THEN FallbackRan
        ELSE ~FallbackRan /\ response.kind = "ok"

\* C4: when the primary run ends failed, in chat mode the caller gets an error
\* and the fallback agent is never run; in search mode the request completes
\* without error and neither the merged response nor the raw text used for
\* parsing holds the primary's text.
C4_PrimaryFailure ==
    run.status = "failed" =>
        IF request.mode = "chat"
        THEN /\ ~FallbackRan
             /\ result.kind = "raise"
             /\ Responded => response.kind = "error"
        ELSE Responded =>
             /\ response.kind = "ok"
             /\ response.message \in
                    {fallback_response_text, WebHeading \o fallback_response_text}
             /\ result.values[4] = Some(Strip(fallback_response_text))

C4_Witness ==
    /\ Responded
    /\ request.mode = "search"
    /\ run.status = "failed"
    /\ primary_response_text # EmptyStr
    /\ fallback_response_text # EmptyStr
    /\ response.kind = "ok"

\* the primary's answer has been read and the fallback decided
Decided == pc \in {"fallback_run", "fallback_read", "merge", "returned", "done"}

\* C5: in chat mode with a fallback agent configured and a primary run that
\* did not fail, the fallback agent is run if and only if the primary text
\* holds an indicator phrase (case-insensitively) or the primary produced no
\* citation and its text is shorter than 200 characters, for every primary
\* text, the empty one included.
C5_FallbackIffRule ==
    (Responded /\ request.mode = "chat" /\ FallbackConfigured
     /\ run.status # "failed") =>
        (FallbackRan <=>
            \/ has_no_results(primary_response_text)
            \/ (primary_citations = << >> /\ StrLen(primary_response_text) < 200))

\* C6: in chat mode with a fallback agent configured and the primary text
\* "NO_RESULTS_FOUND", the fallback agent is run, and whenever that run
\* succeeds the caller gets the fallback's text and citations.
C6_SentinelUsesFallback ==
    (Responded /\ request.mode = "chat" /\ FallbackConfigured
     /\ primary_response_text = S("NO_RESULTS_FOUND")) =>
        /\ FallbackRan
        /\ fallback_run.status = "completed" =>
              /\ response.kind = "ok"
              /\ response.message = fallback_response_text
              /\ response.citations = OrNone(fallback_citations)

\* C6 restricted to a fallback answer whose text is not empty: whenever that
\* run succeeds and the text read after it is not empty, the caller gets the
\* fallback's text and citations.  It holds of answers whose annotations are
\* well formed, and fails on an annotation with a null text (see C21).
C6_SentinelUsesFallbackText ==
    (Responded /\ request.mode = "chat" /\ FallbackConfigured
     /\ primary_response_text = S("NO_RESULTS_FOUND")) =>
        /\ FallbackRan
        /\ (fallback_run.status = "completed" /\ fallback_response_text # EmptyStr) =>
              /\ response.kind = "ok"
              /\ response.message = fallback_response_text
              /\ response.citations = OrNone(fallback_citations)

C6_Witness ==
    /\ Responded
    /\ request.mode = "chat"
    /\ primary_response_text = S("NO_RESULTS_FOUND")
    /\ primary_citations # << >>
    /\ fallback_run.status = "completed"
    /\ fallback_response_text = S("c")
    /\ fallback_citations # << >>
    /\ response.kind = "ok"
    /\ response.message = S("c")

\* C7: in chat mode, for every primary response of 500 or more characters
\* that carries 3 citations, the fallback agent is never run and the
\* primary's text and citations are returned.
C7_LongCitedAnswer ==
    (request.mode = "chat" /\ Decided /\ StrLen(primary_response_text) >= 500
     /\ Len(primary_citations) = 3) =>
        /\ pc # "fallback_run"
        /\ ~FallbackRan
        /\ Responded =>
              /\ response.kind = "ok"
              /\ response.message = primary_response_text
              /\ response.citations = Some(primary_citations)

\* C7 as amended: ... of 500 or more characters that holds none of the
\* indicator phrases and carries 3 citations ...
C7_LongCitedAnswerNoIndicator ==
    (request.mode = "chat" /\ Decided /\ StrLen(primary_response_text) >= 500
     /\ Len(primary_citations) = 3
     /\ ~has_no_results(primary_response_text)) =>
        /\ pc # "fallback_run"
        /\ ~FallbackRan
        /\ Responded =>
              /\ response.kind = "ok"
              /\ response.message = primary_response_text
              /\ response.citations = Some(primary_citations)

C7_Witness ==
    /\ Responded
    /\ request.mode = "chat"
    /\ FallbackConfigured
    /\ StrLen(primary_response_text) >= 500
    /\ Len(primary_citations) = 3
    /\ response.kind = "ok"
    /\ response.message = primary_response_text

\* both runs completed and both texts are neither empty nor the sentinel
BothAnswered ==
    /\ run.status = "completed"
    /\ fallback_run.status = "completed"
    /\ primary_response_text \notin {EmptyStr, S("NO_RESULTS_FOUND")}
    /\ fallback_response_text \notin {EmptyStr, S("NO_RESULTS_FOUND")}

\* the knowledge-base section followed by the web-results section, and the
\* primary's citations followed by the fallback's
BothSectionsReturned ==
    /\ response.kind = "ok"
    /\ response.message =
          << Lit("## Knowledge Base Results"), NL, NL >> \o primary_response_text
          \o << NL, NL >>
          \o << Lit("## Web Search Results"), NL, NL >> \o fallback_response_text
    /\ response.citations = OrNone(primary_citations \o fallback_citations)
    /\ Len(response.citations.v) = Len(primary_citations) + Len(fallback_citations)

\* C8: in search mode, when both agents return non-empty text that is not
\* "NO_RESULTS_FOUND", the merged response holds the knowledge-base section
\* followed by the web-results section and the citations are the primary's
\* followed by the fallback's, undeduplicated.
C8_BothSections ==
    (Responded /\ request.mode = "search" /\ BothAnswered) => BothSectionsReturned

\* C8 restricted to texts that do not contain "NO_RESULTS_FOUND".  It holds
\* of answers whose annotations are well formed, and fails on a citation with
\* a null title (see C21).
C8_BothSectionsNoSentinelInside ==
    (Responded /\ request.mode = "search" /\ BothAnswered
     /\ ~Contains(primary_response_text, "NO_RESULTS_FOUND")
     /\ ~Contains(fallback_response_text, "NO_RESULTS_FOUND")) =>
        BothSectionsReturned

C8_Witness ==
    /\ Responded
    /\ request.mode = "search"
    /\ BothAnswered
    /\ Len(primary_citations) = 2
    /\ Len(fallback_citations) = 2
    /\ primary_citations # fallback_citations
    /\ BothSectionsReturned

\* C9: in search mode an agent's text appears in the merged response only if
\* it is non-empty and not the "NO_RESULTS_FOUND" sentinel; the merged
\* response never consists of, or contains, sentinel text.
C9_SentinelNeverShown ==
    (RespondedOk /\ request.mode = "search") =>
        /\ primary_response_text = S("NO_RESULTS_FOUND") =>
              ~ContainsStr(response.message, primary_response_text)
        /\ fallback_response_text = S("NO_RESULTS_FOUND") =>
              ~ContainsStr(response.message, fallback_response_text)

\* C10: in chat mode the returned text and citations come from one agent: the
\* fallback's when the fallback ran and produced text and the primary text is
\* empty or the decision rule selected the fallback, the primary's otherwise.
C10_OneAgentsAnswer ==
    LET fallback_answer ==
            << fallback_response_text, OrNone(fallback_citations) >>
        primary_answer ==
            << primary_response_text, OrNone(primary_citations) >>
        expected ==
            IF FallbackRan /\ fallback_response_text # EmptyStr
               /\ (primary_response_text = EmptyStr \/ use_fallback)
            THEN fallback_answer
            ELSE primary_answer
    IN request.mode = "chat" =>
          /\ result.kind = "return" =>
                << result.values[1], result.values[3] >> = expected
          /\ RespondedOk =>
                << response.message, response.citations >> = expected

C10_Witness ==
    /\ RespondedOk
    /\ request.mode = "chat"
    /\ primary_response_text # EmptyStr
    /\ primary_citations # << >>
    /\ fallback_citations # << >>
    /\ primary_citations # fallback_citations
    /\ response.message = fallback_response_text
    /\ response.message # primary_response_text
    /\ response.citations = Some(fallback_citations)

\* positions in the log of the calls that created a thread
ThreadsCreated ==
    {i \in 1..Len(service_calls) : service_calls[i].op = "threads.create"}
CarriedThreadId == request.thread_id \notin {None, NoThreadId}

\* C11: within one request the user-message post, the primary run, the
\* fallback run and every message read name the same thread identifier; a
\* thread is created if and only if the request carried no thread
\* identifier; the thread identifier of the response is the one supplied or
\* the one just created; and no thread (and no message of one) is deleted.
C11_OneThread ==
    /\ \A i, j \in 1..Len(service_calls) :
           service_calls[i].thread_id = service_calls[j].thread_id
    /\ Cardinality(ThreadsCreated) <= 1
    /\ pc # "start" => (ThreadsCreated # {} <=> ~CarriedThreadId)
    /\ \A i \in 1..Len(service_calls) :
           /\ service_calls[i].thread_id =
                  (IF CarriedThreadId THEN request.thread_id
                   ELSE service_calls[1].thread_id)
           /\ service_calls[i].thread_id \in DOMAIN threads
    /\ RespondedOk =>
           /\ service_calls # << >>
           /\ response.thread_id = service_calls[1].thread_id
    /\ ExistingThread \in DOMAIN threads
    /\ SubSeq(threads[ExistingThread], 1, Len(EarlierTurn)) = EarlierTurn

\* a request on an existing thread answered after both runs and both reads
C11_Witness ==
    /\ RespondedOk
    /\ CarriedThreadId
    /\ FallbackRan
    /\ Len(service_calls) = 5
    /\ response.thread_id = ExistingThread

\* no result: alone the request would have run the fallback agent, here it
\* did not
Undetermined == [kind |-> "undetermined"]

\* what chat_with_agent gives for the request with locals l when it runs
\* alone and its two runs post what they posted here
AloneResult(l) ==
    LET mode == l.request.mode
        alone_thread == << UserMessage(AgentMessage(l.request)) >> \o l.primary_posted
        p == PrimaryRead(LatestMessages(alone_thread), mode)
        f == FallbackRead(LatestMessages(alone_thread \o l.fallback_posted))
    IN IF l.run.status = "failed" /\ mode # "search"
       THEN Raise(S("Primary agent run failed"))
       ELSE IF ~(p.use_fallback /\ fallback_agent_id # None)
       THEN MergeResult(mode, p.text, l.run.status, p.citations, p.use_fallback,
                        EmptyStr, << >>, l.thread_id)
       ELSE IF l.fallback_run = NoRun THEN Undetermined
       ELSE IF l.fallback_run.status = "failed"
       THEN IF mode = "chat"
            THEN Return(FallbackFailedReturn(p.text, p.citations, l.thread_id))
            ELSE MergeResult(mode, p.text, l.run.status, p.citations,
                             p.use_fallback, EmptyStr, << >>, l.thread_id)
       ELSE MergeResult(mode, p.text, l.run.status, p.citations, p.use_fallback,
                        f.text, f.citations, l.thread_id)

\* C12: under every interleaving of the steps of two requests in flight,
\* the response each request returns (text, citations, search results) is
\* the one it returns when it runs alone with the same answers of its own
\* agent runs.
C12_NoInterference ==
    \A r \in DOMAIN inflight :
        inflight[r].pc = "done" =>
            /\ AloneResult(inflight[r]) # Undetermined
            /\ inflight[r].response =
                   ResponseOf(AloneResult(inflight[r]), inflight[r].request.mode)

\* two requests that name the same thread
SameThread ==
    /\ DOMAIN inflight = RequestIds
    /\ HasThreadId(inflight[1].request.thread_id)
    /\ inflight[1].request.thread_id = inflight[2].request.thread_id

\* the part of C12 that holds: two requests on different threads do not
\* interfere
DistinctThreadsNoInterference == SameThread \/ C12_NoInterference

\* C13: after startup loading no step of request handling (the resolver,
\* the formatter, chat_with_agent, the endpoints) adds, removes or changes
\* an entry of the URL mapping table, for one request, for a direct call of
\* the formatter and for two requests in flight.
C13_TableNeverWritten == [][url_mapping' = url_mapping]_vars

\* two requests in flight have both answered with resolved citations, and
\* the table is the one loaded at startup
C13_Witness ==
    /\ DOMAIN inflight = RequestIds
    /\ \A r \in RequestIds :
           /\ inflight[r].pc = "done"
           /\ inflight[r].request.mode = "search"
           /\ inflight[r].primary_citations # << >>
    /\ url_mapping = LoadUrlMapping

Resolved == pc = "resolve_done"
PdfKey == call.doc_id \o S(".pdf")
DocxKey == call.doc_id \o S(".docx")

\* C14: map_document_id_to_url returns an identifier that looks like a url
\* unchanged, whatever the table holds; otherwise the url of the verbatim
\* key, else the url of the '.pdf'-suffixed key, else the url of the
\* '.docx'-suffixed key, else the identifier unchanged.
C14_Precedence ==
    Resolved =>
        /\ StartsWithHttp(call.doc_id) => results = call.doc_id
        /\ ~StartsWithHttp(call.doc_id) =>
              /\ call.doc_id \in DOMAIN url_mapping =>
                    results = url_mapping[call.doc_id]
              /\ (call.doc_id \notin DOMAIN url_mapping
                   /\ PdfKey \in DOMAIN url_mapping) =>
                    results = url_mapping[PdfKey]
              /\ (call.doc_id \notin DOMAIN url_mapping
                   /\ PdfKey \notin DOMAIN url_mapping
                   /\ DocxKey \in DOMAIN url_mapping) =>
                    results = url_mapping[DocxKey]
              /\ (call.doc_id \notin DOMAIN url_mapping
                   /\ PdfKey \notin DOMAIN url_mapping
                   /\ DocxKey \notin DOMAIN url_mapping) =>
                    results = call.doc_id

\* an identifier without a verbatim key, held under both suffixed keys with
\* different urls, resolved to the '.pdf' key's url
C14_Witness ==
    /\ Resolved
    /\ ~StartsWithHttp(call.doc_id)
    /\ call.doc_id \notin DOMAIN url_mapping
    /\ PdfKey \in DOMAIN url_mapping
    /\ DocxKey \in DOMAIN url_mapping
    /\ url_mapping[PdfKey] # url_mapping[DocxKey]
    /\ results = url_mapping[PdfKey]

\* C15 as stated: an identifier that is not a key of the table is returned
\* unchanged.
C15_AbsentUnchanged ==
    (Resolved /\ call.doc_id \notin DOMAIN url_mapping) =>
        results = call.doc_id

\* C15: an identifier is returned unchanged when neither it nor it with
\* '.pdf' or '.docx' appended is a key of the table.
C15_AbsentUnderAllKeysUnchanged ==
    (Resolved /\ call.doc_id \notin DOMAIN url_mapping
     /\ PdfKey \notin DOMAIN url_mapping /\ DocxKey \notin DOMAIN url_mapping) =>
        results = call.doc_id

\* an identifier under none of its three keys, in a table that is not empty
C15_Witness ==
    /\ Resolved
    /\ ~StartsWithHttp(call.doc_id)
    /\ call.doc_id # EmptyStr
    /\ DOMAIN url_mapping # {}
    /\ call.doc_id \notin DOMAIN url_mapping
    /\ PdfKey \notin DOMAIN url_mapping
    /\ DocxKey \notin DOMAIN url_mapping
    /\ results = call.doc_id

\* the url the table holds for doc_1 and the title its file name gives
AnnualReportUrl ==
    S("https://x/") \o S("y") \o S("?") \o S("file=") \o S("Annual-Report") \o S(".pdf")
AnnualReportTitle == S("Annual Report")

\* C16: a knowledge-base citation whose title and url are both 'doc_1',
\* with 'doc_1.pdf' mapped to 'https://x/y?file=Annual-Report.pdf', is
\* normalized to the mapped url and the title 'Annual Report': in the
\* citations chat_with_agent extracts, in the citations of the response and
\* in the search results made from them.
C16_DocTitleImproved ==
    /\ \A i \in 1..Len(primary_citations) :
           primary_citations[i].url = AnnualReportUrl =>
               primary_citations[i].title = AnnualReportTitle
    /\ (RespondedOk /\ ~response.citations.none) =>
           \A i \in 1..Len(response.citations.v) :
               response.citations.v[i].url = AnnualReportUrl =>
                   response.citations.v[i].title = AnnualReportTitle
    /\ (RespondedOk /\ ~response.search_results.none) =>
           \A i \in 1..Len(response.search_results.v) :
               response.search_results.v[i].url = AnnualReportUrl =>
                   response.search_results.v[i].title = AnnualReportTitle

\* a direct call in search mode, without citations, has returned
ParsedCall ==
    /\ pc = "format_done"
    /\ call.is_search_mode
    /\ ~Truthy(call.citations)
    /\ call.agent_response # << >>

\* the paragraphs of the text of the call
CallParagraphs == SplitParas(Strip(call.agent_response), << >>)

InResults(res) == \E i \in 1..Len(results) : results[i] = res

\* title, url and snippet as the claim gives them for a paragraph with a link
LinkTitle(para) == OrdinalStrip(Strip(MarkdownMatch(para).title))
LinkUrl(para) == Strip(MarkdownMatch(para).url)
LinkSnippet(para) ==
    IF Contains(para, "\n") THEN Strip(AfterFirstLine(para)) ELSE para

BenefitsResult ==
    SearchResult(S("Benefits") \o S(" ") \o S("Guide"),
                 S("https://x/") \o S("benefits"),
                 S("Details") \o S(" ") \o S("here"))

\* C17 as stated: in search mode with no citations every paragraph that
\* contains a markdown link yields a Search Result with the link text less
\* its leading ordinal as title, the link target as url and the rest of the
\* paragraph after its first line (the whole paragraph if it has one line)
\* as snippet.
C17_LinkYieldsResult ==
    ParsedCall =>
        \A k \in 1..Len(CallParagraphs) :
            MarkdownMatch(CallParagraphs[k]).found =>
                InResults(SearchResult(LinkTitle(CallParagraphs[k]),
                                       LinkUrl(CallParagraphs[k]),
                                       LinkSnippet(CallParagraphs[k])))

\* C17: such a paragraph yields that Search Result, with the title cut to
\* its first 200 characters and the snippet to its first 500, provided the
\* link text is not empty once the ordinal is removed and the target is not
\* '#'; the text "1. [Benefits Guide](https://x/benefits)\nDetails here"
\* yields exactly the result ("Benefits Guide", "https://x/benefits",
\* "Details here").
C17_LinkYieldsCutResult ==
    /\ ParsedCall =>
          \A k \in 1..Len(CallParagraphs) :
              (/\ MarkdownMatch(CallParagraphs[k]).found
               /\ LinkTitle(CallParagraphs[k]) # << >>
               /\ LinkUrl(CallParagraphs[k]) # Sentinel) =>
                  InResults(SearchResult(
                      Take(LinkTitle(CallParagraphs[k]), MaxTitleLen),
                      LinkUrl(CallParagraphs[k]),
                      Take(LinkSnippet(CallParagraphs[k]), MaxSnippetLen)))
    /\ (ParsedCall /\ call.agent_response = BenefitsExample) =>
          results = << BenefitsResult >>

\* the Benefits Guide text parsed into its one result
C17_Witness ==
    /\ ParsedCall
    /\ call.agent_response = BenefitsExample
    /\ results = << BenefitsResult >>

\* every entry of a result list within the limits of a Search Result
WithinLimits(list) ==
    \A i \in 1..Len(list) :
        /\ StrLen(list[i].title) <= MaxTitleLen
        /\ StrLen(list[i].snippet) <= MaxSnippetLen

MarkerEntries(list) == {i \in 1..Len(list) : list[i].url = Sentinel}

\* a result list holds a '#' entry only as its single entry, the placeholder
PlaceholderOnlyAlone(list, text) ==
    MarkerEntries(list) # {} => list = << FallbackResult(text) >>

\* C19 as stated: a result list returned by format_as_search_results holds
\* an entry with url '#' only when that entry is the single fallback result;
\* and the citations returned to the caller hold a citation with url '#' only when
\* they hold no citation with a real url.
C19_MarkerOnlyWhenNothingBetter ==
    /\ pc = "format_done" => PlaceholderOnlyAlone(results, call.agent_response)
    /\ (RespondedOk /\ ~response.search_results.none) =>
           (MarkerEntries(response.search_results.v) # {} =>
                Len(response.search_results.v) = 1)
    /\ (RespondedOk /\ ~response.citations.none) =>
           (MarkerEntries(response.citations.v) # {} =>
                MarkerEntries(response.citations.v) = DOMAIN response.citations.v)

\* C19: a result list returned by format_as_search_results holds an entry
\* with url '#' only when that entry is the single fallback result (the
\* citations returned to the caller are not filtered).
C19_FormatterMarkerOnlyAlone ==
    /\ pc = "format_done" => PlaceholderOnlyAlone(results, call.agent_response)
    /\ (RespondedOk /\ ~response.search_results.none) =>
           (MarkerEntries(response.search_results.v) # {} =>
                Len(response.search_results.v) = 1)

\* a call with a '#' citation beside one with a real url: the result list
\* holds no '#' entry
C19_Witness ==
    /\ pc = "format_done"
    /\ Truthy(call.citations)
    /\ MarkerEntries([i \in 1..Len(call.citations.v) |->
                         [url |-> Get(call.citations.v[i], "url", Sentinel)]]) # {}
    /\ results # << >>
    /\ MarkerEntries(results) = {}

PrimaryFailed == run.status = "failed"
FallbackFailed == fallback_run.status = "failed"

\* C20: the caller gets an error only when both agent runs failed, or in
\* chat mode without a fallback agent; a request in which both agents ran
\* and exactly one run failed gets a normal response.
C20_ErrorOnlyWhenBothFail ==
    Responded =>
        /\ response.kind = "error" =>
              \/ PrimaryFailed /\ FallbackFailed
              \/ request.mode = "chat" /\ ~FallbackConfigured
        /\ (FallbackRan /\ (PrimaryFailed # FallbackFailed)) =>
              response.kind = "ok"

\* C21: a malformed or unrecognized annotation never makes the request fail:
\* whenever neither run ended failed, whatever the shapes of the annotations
\* on the messages read (a null or empty url, title or text included), the
\* caller gets a normal response.
C21_MalformedNeverFatal ==
    (Responded /\ run.status # "failed" /\ fallback_run.status # "failed") =>
        response.kind = "ok"

\* the annotations of the message the fallback branch read
FallbackAnnotationsRead ==
    LET msgs == LatestMessages(threads[thread_id])
    IN IF IsAssistantText(msgs) THEN msgs[1].text_messages[1].annotations
       ELSE << >>

\* the urls an annotation holds, in any of its shapes, and the '#' default
UrlsOfAnnotation(ann) ==
    {Sentinel}
    \cup (IF HasObj(ann, "url_citation") /\ "url" \in DOMAIN ann.url_citation
          THEN {ann.url_citation.url} ELSE {})
    \cup (IF HasObj(ann, "file_citation") /\ "url" \in DOMAIN ann.file_citation
          THEN {ann.file_citation.url} ELSE {})
    \cup (IF "url" \in DOMAIN ann THEN {ann.url} ELSE {})
    \cup (IF "text" \in DOMAIN ann THEN {BareUrl(ann.text)} ELSE {})

\* the titles an annotation holds, and the numbered defaults of the k-th
TitlesOfAnnotation(ann, k) ==
    {S(label) \o S(ToString(k)) :
        label \in {"Web Result ", "Source ", "Web Source ", "Web Reference "}}
    \cup (IF HasObj(ann, "url_citation") /\ "title" \in DOMAIN ann.url_citation
          THEN {ann.url_citation.title} ELSE {})
    \cup (IF HasObj(ann, "file_citation") /\ "title" \in DOMAIN ann.file_citation
          THEN {ann.file_citation.title} ELSE {})
    \cup (IF "title" \in DOMAIN ann THEN {ann.title} ELSE {})

\* a citation the fallback branch made
IsWebCitation(c) == c.source = "Bing Search"

\* C22: the URL resolver is applied only to knowledge-base citations: every
\* web-search citation in a response has the url and the title of an
\* annotation of the message the fallback branch read, and the search result
\* made from it (when its url is neither empty nor '#') has that url and
\* that title, whatever the table holds.
C22_WebCitationsUntouched ==
    (RespondedOk /\ ~response.citations.none) =>
        \A i \in 1..Len(response.citations.v) :
            LET c == response.citations.v[i] IN
            IsWebCitation(c) =>
                /\ \E k \in 1..Len(FallbackAnnotationsRead) :
                       /\ c.url \in UrlsOfAnnotation(FallbackAnnotationsRead[k])
                       /\ c.title \in TitlesOfAnnotation(FallbackAnnotationsRead[k], k)
                /\ (request.mode = "search" /\ i <= MaxResults
                    /\ ~Falsy(c.url) /\ c.url # Sentinel) =>
                       \E j \in 1..Len(response.search_results.v) :
                           /\ response.search_results.v[j].url = c.url
                           /\ response.search_results.v[j].title = c.title

\* a web citation whose url and title are a key of the table, 'doc_1', is
\* returned, and so is the search result made from it
C22_Witness ==
    /\ RespondedOk
    /\ request.mode = "search"
    /\ fallback_run.status = "completed"
    /\ \E i \in 1..Len(response.citations.v) :
           /\ IsWebCitation(response.citations.v[i])
           /\ response.citations.v[i].url = S("doc_") \o S("1")
           /\ response.citations.v[i].url \in DOMAIN url_mapping
           /\ response.citations.v[i].title = S("doc_") \o S("1")
    /\ \E j \in 1..Len(response.search_results.v) :
           /\ response.search_results.v[j].url = S("doc_") \o S("1")
           /\ response.search_results.v[j].title = S("doc_") \o S("1")

\* a result of the call is one the parser makes from the text of the call
FromText(res) ==
    \E k \in 1..Len(ParsedResults(call.agent_response)) :
        res = ParsedResults(call.agent_response)[k]

\* the url the formatter resolves a citation to
ResolvedUrl(citation) ==
    LET url == Get(citation, "url", Sentinel)
    IN IF Get(citation, "source", "Unknown") = "AI Search" /\ url # Sentinel
       THEN map_document_id_to_url(url)
       ELSE url

\* the positions, among the first 20, of the citations of the call whose
\* resolved url is neither empty nor '#'
KeptPositions ==
    IF Truthy(call.citations)
    THEN {i \in 1..Len(call.citations.v) :
             /\ i <= MaxResults
             /\ ~Falsy(ResolvedUrl(call.citations.v[i]))
             /\ ResolvedUrl(call.citations.v[i]) # Sentinel}
    ELSE {}

\* C23 as stated: whenever at least one citation was passed in, no Search
\* Result in the output is derived from parsing the response text.
C23_NoParseWithCitations ==
    (pc = "format_done" /\ Truthy(call.citations)) =>
        \A j \in 1..Len(results) : ~FromText(results[j])

\* C23: the text parser runs only when no citation yielded a result, the
\* mode is search and the text is not empty: whenever one of the first 20
\* citations has a resolved url that is neither empty nor '#', no Search
\* Result in the output is derived from parsing the response text.
C23_NoParseWithCitationResults ==
    pc = "format_done" =>
        /\ KeptPositions # {} => \A j \in 1..Len(results) : ~FromText(results[j])
        /\ (\E j \in 1..Len(results) : FromText(results[j])) =>
               /\ call.is_search_mode
               /\ call.agent_response # << >>
               /\ KeptPositions = {}

\* a call in search mode with a citation that is kept and a text the parser
\* would make a result from
C23_Witness ==
    /\ pc = "format_done"
    /\ call.is_search_mode
    /\ KeptPositions # {}
    /\ ParsedResults(call.agent_response) # << >>
    /\ Len(results) = Cardinality(KeptPositions)

\* the j-th smallest of the kept positions
KeptPosition(j) ==
    CHOOSE i \in KeptPositions :
        Cardinality({k \in KeptPositions : k <= i}) = j

\* C24: the Search Results made from citations are, in order, the first 20
\* citations whose resolved url is neither empty nor '#': none comes from a
\* citation beyond the 20th, the j-th result has the resolved url of the j-th
\* kept citation and its snippet, or the first 250 characters of the
\* response text when that snippet is empty.
C24_OrderPreservingSubsequence ==
    (pc = "format_done" /\ KeptPositions # {}) =>
        /\ Len(results) = Cardinality(KeptPositions)
        /\ \A j \in 1..Len(results) :
               LET citation == call.citations.v[KeptPosition(j)]
                   snippet == Get(citation, "snippet", EmptyStr)
               IN /\ results[j].url = ResolvedUrl(citation)
                  /\ results[j].snippet =
                         IF Falsy(snippet)
                         THEN Take(call.agent_response, SnippetFromTextLen)
                         ELSE snippet

\* 21 citations, the 2nd and the 20th unresolved, and a text of 300
\* characters: 18 results, the third with the first 250 characters as snippet
C24_Witness ==
    /\ pc = "format_done"
    /\ Len(call.citations.v) = MaxResults + 1
    /\ Cardinality(KeptPositions) = MaxResults - 2
    /\ Len(results) = MaxResults - 2
    /\ results[2].url = S("https://bing/") \o S("3")
    /\ StrLen(call.agent_response) = 300
    /\ StrLen(results[2].snippet) = SnippetFromTextLen

\* the operations called on the agents client so far, in order
CalledOps == [i \in 1..Len(service_calls) |-> service_calls[i].op]

\* the calls of one request after the thread is there, in the order the
\* claim gives
CallOrder ==
    << "messages.create", "runs.create_and_process", "messages.list",
       "runs.create_and_process", "messages.list" >>

IsPrefix(s, t) == Len(s) <= Len(t) /\ s = SubSeq(t, 1, Len(s))

\* C25: within one request the external calls are strictly ordered: the
\* user message is posted before the primary run, the primary's response is
\* read after the primary run and before the fallback run, and the
\* fallback's response is read after the fallback run; each call has
\* returned before the next one is made.
C25_CallsInOrder ==
    LET ops == IF CalledOps # << >> /\ CalledOps[1] = "threads.create"
               THEN Tail(CalledOps) ELSE CalledOps
    IN /\ IsPrefix(ops, CallOrder)
       /\ pc = "start" => service_calls = << >>
       /\ pc = "post" => ops = << >>
       /\ pc = "primary_run" => Len(ops) = 1
       /\ pc = "primary_read" => Len(ops) = 2 /\ run.status # "none"
       /\ pc = "fallback_run" =>
              Len(ops) = 3 /\ run.status # "none" /\ fallback_run.status = "none"
       /\ pc = "fallback_read" => Len(ops) = 4 /\ fallback_run.status # "none"

\* a request that made all five calls on a thread it was given
C25_Witness ==
    /\ Responded
    /\ CalledOps = CallOrder
    /\ run.status = "completed"
    /\ fallback_run.status = "completed"

\* chat mode, the primary's response read: its text is empty and the
\* decision rule did not select the fallback
EmptyAndUntriggered ==
    /\ request.mode = "chat"
    /\ FallbackConfigured
    /\ pc \in {"merge", "returned", "done"}
    /\ run.status # "failed"
    /\ primary_response_text = EmptyStr
    /\ ~use_fallback

\* C26 as stated needs an execution in which, in chat mode, the primary text
\* is empty, the decision rule did not select the fallback, and the fallback
\* agent has nevertheless run and produced the text that is returned: with
\* the primary text empty and the rule not triggered, the fallback has run.
C26_FallbackSelectedUntriggered == EmptyAndUntriggered => FallbackRan

\* C26: in chat mode the fallback agent runs, and its text is returned, only
\* when the decision rule selected the fallback: no execution has a fallback
\* text while use_fallback is false, so the test "not primary_response_text"
\* of the merge rule never decides.
C26_FallbackOnlyWhenTriggered ==
    request.mode = "chat" =>
        /\ FallbackRan => use_fallback
        /\ fallback_response_text # EmptyStr => use_fallback
        /\ (RespondedOk /\ fallback_response_text # primary_response_text
            /\ response.message = fallback_response_text) => use_fallback
        /\ EmptyAndUntriggered =>
               /\ ~FallbackRan
               /\ Responded => response.message = primary_response_text

\* the primary text is empty, the rule selected the fallback, and the
\* fallback's text is returned
C26_Witness ==
    /\ RespondedOk
    /\ request.mode = "chat"
    /\ primary_response_text = EmptyStr
    /\ use_fallback
    /\ fallback_response_text # EmptyStr
    /\ response.message = fallback_response_text

\* the three placeholder patterns of a title
NumberedPlaceholder(title) ==
    StartsWithWord(title, "Document ") \/ StartsWithWord(title, "Search Result ")
Placeholder(title) == NumberedPlaceholder(title) \/ StartsWithWord(title, "doc_")

\* a url the table holds for some identifier, from which a title can be
\* derived: it has a 'file' parameter or ends in .pdf or .docx
ResolvedWithFileName(url) ==
    /\ \E k \in DOMAIN url_mapping : url_mapping[k] = url /\ k # url
    /\ Contains(UrlQuery(url), "file=") \/ EndsWithExt(url)

\* no knowledge-base citation of the response, and no search result, whose
\* url was resolved to one with a file name has a title the test holds of
NoTitleLeft(IsPlaceholder(_)) ==
    /\ (RespondedOk /\ ~response.citations.none) =>
           \A i \in 1..Len(response.citations.v) :
               LET c == response.citations.v[i] IN
               (c.source = "AI Search" /\ ResolvedWithFileName(c.url)) =>
                   ~IsPlaceholder(c.title)
    /\ (RespondedOk /\ ~response.search_results.none) =>
           \A j \in 1..Len(response.search_results.v) :
               LET r == response.search_results.v[j] IN
               ResolvedWithFileName(r.url) => ~IsPlaceholder(r.title)

\* C27: whenever resolution changed a knowledge-base citation's url to one
\* with a 'file' parameter or ending in .pdf/.docx, the title in the returned
\* citation and in the derived Search Result is never one of the three
\* placeholder patterns "Document N", "Search Result N", 'doc_...'.
C27_PlaceholdersImproved == NoTitleLeft(Placeholder)

\* C27 for the patterns "Document N" and "Search Result N" alone
NumberedPlaceholdersImproved == NoTitleLeft(NumberedPlaceholder)

\* the first shape, in the order url citation, file citation, bare url
\* property, free text with a url, that an annotation matches
FirstShape(ann) ==
    IF HasObj(ann, "url_citation") THEN "url_citation"
    ELSE IF HasObj(ann, "file_citation") THEN "file_citation"
    ELSE IF "url" \in DOMAIN ann THEN "url"
    ELSE IF "text" \in DOMAIN ann /\ BareUrl(ann.text) # << >> THEN "text"
    ELSE "none"

\* the positions of the annotations that match a shape
Decodable(annotations) ==
    {k \in 1..Len(annotations) : FirstShape(annotations[k]) # "none"}

\* the j-th smallest of a set of positions
NthOf(positions, j) ==
    CHOOSE i \in positions : Cardinality({k \in positions : k <= i}) = j

\* citation c has the snippet, and the url, that the first shape of ann gives;
\* quote is the attribute a file citation's snippet is read from
DecodedByFirstShape(c, ann, quote) ==
    CASE FirstShape(ann) = "url_citation" ->
             /\ c.snippet = Get(ann.url_citation, "snippet", EmptyStr)
             /\ LET url == Get(ann.url_citation, "url", Sentinel)
                IN c.url \in {url, map_document_id_to_url(url)}
      [] FirstShape(ann) = "file_citation" ->
             c.snippet = Get(ann.file_citation, quote, EmptyStr)
      [] FirstShape(ann) = "url" ->
             /\ c.snippet = Get(ann, "text", Get(ann, "snippet", EmptyStr))
             /\ c.url = ann.url
      [] FirstShape(ann) = "text" ->
             /\ c.snippet = ann.text
             /\ c.url = BareUrl(ann.text)

\* the citations are, in order, those of the annotations that match a shape,
\* each decoded by the first shape it matches
OnePerDecodable(citations, annotations, quote) ==
    /\ Len(citations) = Cardinality(Decodable(annotations))
    /\ \A j \in 1..Len(citations) :
           DecodedByFirstShape(citations[j],
                               annotations[NthOf(Decodable(annotations), j)],
                               quote)

\* the primary's response has just been read, without an exception
PrimaryJustRead == pc \in {"fallback_run", "merge"} /\ fallback_run = NoRun

\* the fallback's response has just been read, without an exception
FallbackJustRead ==
    pc = "merge" /\ fallback_run.status \notin {"none", "failed"}

\* the annotations of the latest message of the request's thread
AnnotationsRead ==
    LET msgs == LatestMessages(threads[thread_id])
    IN IF IsAssistantText(msgs) THEN msgs[1].text_messages[1].annotations
       ELSE << >>

\* C28: each annotation is decoded by the first shape it matches, in the
\* order url citation, file citation, bare url property, free text, and
\* yields at most one citation; a free text without a url and an annotation
\* matching no shape yield none; the citations are in the order of the
\* annotations.  For the primary's and for the fallback's annotations.
C28_FirstShapeWins ==
    /\ PrimaryJustRead =>
           OnePerDecodable(primary_citations, AnnotationsRead, "quote")
    /\ FallbackJustRead =>
           OnePerDecodable(fallback_citations, AnnotationsRead, "snippet")

\* an annotation with the attributes of all four shapes, decoded as a url
\* citation, after one that matches no shape
C28_Witness ==
    /\ PrimaryJustRead
    /\ Len(AnnotationsRead) = 2
    /\ FirstShape(AnnotationsRead[1]) = "url_citation"
    /\ AnnotationsRead[2] = SeveralShapesAnnotation
    /\ Len(primary_citations) = 2
    /\ primary_citations[2].url = S("https://x/") \o S("Guide")

\* how many calls of operation op the request made on the agents client
CallCount(op) ==
    Cardinality({i \in 1..Len(service_calls) : service_calls[i].op = op})

\* at most one thread creation, one user-message post on the success path,
\* at most one run per agent, and one outcome once answered
RequestResources ==
    /\ CallCount("threads.create") <= 1
    /\ CallCount("messages.create") <= 1
    /\ RespondedOk => CallCount("messages.create") = 1
    /\ CallCount("runs.create_and_process") =
           (IF run.status # "none" THEN 1 ELSE 0)
           + (IF fallback_run.status # "none" THEN 1 ELSE 0)
    /\ fallback_run.status # "none" => run.status # "none"
    /\ Responded <=> response # NoResult
    /\ Responded => response.kind \in {"ok", "error"}

\* every step moves the request along the state sequence, and the answer is
\* given once, by the last step
RequestStep ==
    /\ pc' \in StateAfter(pc)
    /\ response' # response => (response = NoResult /\ pc' = "done")

\* C29: every request follows the state sequence thread ready, primary
\* running, primary done or failed, optionally fallback running then done or
\* failed, merged; while each external call returns it eventually ends in one
\* outcome, a merged response or one error, after at most one thread
\* creation, exactly one user-message post on the success path and at most
\* one run per agent.
C29_RequestTerminates ==
    /\ []RequestResources
    /\ [][RequestStep]_vars
    /\ <>Responded

\* a request answered after it created a thread and ran both agents
C29_Witness ==
    /\ RespondedOk
    /\ CallCount("threads.create") = 1
    /\ CallCount("messages.create") = 1
    /\ CallCount("runs.create_and_process") = 2

\* what request r holds after its reads is what its own runs posted: the
\* text and citations it holds of the primary are those of its own primary's
\* message, and the same for the fallback
ReadsOwnRun(r) ==
    LET l == inflight[r]
        own_primary == PrimaryRead(LatestMessages(l.primary_posted), l.request.mode)
        own_fallback == FallbackRead(LatestMessages(l.fallback_posted))
    IN /\ l.primary_response_text \in {EmptyStr, own_primary.text}
       /\ l.primary_citations \in {<< >>, own_primary.citations}
       /\ l.fallback_response_text \in {EmptyStr, own_fallback.text}
       /\ l.fallback_citations \in {<< >>, own_fallback.citations}

\* C30: when two requests in flight name the same thread, the message each
\* reads after its primary or fallback run, the latest of the thread, is the
\* assistant message of its own run, under every interleaving: neither
\* returns a message or citations of the other's run or of an earlier turn.
C30_ReadsOwnRun ==
    SameThread => \A r \in DOMAIN inflight : ReadsOwnRun(r)

====
